---- MODULE Spec2Model ----
(***************************************************************************)
(* Feishu channel plugin: connection manager (monitorFeishuProvider and    *)
(* the stop operations), event de-duplication cache (isEventProcessed),    *)
(* event router and message pipeline (handleMessageEvent and the other     *)
(* handlers), and the group-command engine (parseCommand, executeCommand). *)
(*                                                                         *)
(* Each component has its own specification (SpecConn, SpecDedup, ...)     *)
(* over the shared variables; a component's actions leave the variables of *)
(* the other components unchanged.                                         *)
(***************************************************************************)
EXTENDS Integers, Sequences, FiniteSets, TLC

VARIABLES
    \* ---- connection manager (monitor.ts) ----
    conns,              \* every WSClient ever created: <<[acc, app, key, live, sig]>>
    activeClients,      \* the registry Map<clientKey, WSClient>: key -> index in conns
    aborted,            \* the abort signals that have fired
    lastOp,             \* the operation that produced this state
    \* ---- de-duplication cache (monitor.ts) ----
    processedEventIds,  \* Map<eventId, timestamp>
    now,                \* Date.now(), in ms
    calls,              \* identifiers passed to isEventProcessed since the cache was empty
    windowStart,        \* Date.now() of the first call since the cache was empty, or -1
    lastCall,           \* the last isEventProcessed call and what it returned
    \* ---- event router and handlers (monitor.ts) ----
    runtimeReady,       \* setFeishuRuntime has been called
    tasks,              \* handler tasks suspended at an await
    delivered,          \* events the transport has handed to a callback
    acked,              \* deliveries whose callback has returned
    passLog,            \* deliveries with an identifier that passed the dedup check
    ended,              \* the task that ended in the step to this state, and how
    lastFailed,         \* serial of the task that failed last, or 0
    propagated,         \* a task failure escaped handleEventError
    \* ---- API client cache (api.ts) and command executor (commands.ts) ----
    clientCache,        \* Map<appId, lark.Client>: the application ids with a client
    cmd,                \* the executeCommand call in progress, or the last one
    \* ---- message ingestion pipeline, one execution followed to its end ----
    pipe,               \* the handleMessageEvent execution in progress, or the last one
    \* ---- broadcastToGroups (api.ts) ----
    bcast,              \* the broadcastToGroups call in progress, or the last one
    \* ---- pure functions, called with arguments of the caller's choice ----
    parsed,             \* the last parseCommand call: arguments and values returned
    senderCheck,        \* the last isSenderAllowed call: arguments and value returned
    \* ---- getBotInfo (api.ts) ----
    botInfoCache,       \* Map<appId, {openId, name}>: application id -> open id
    bot                 \* the getBotInfo call in progress, or the last one

connVars  == <<conns, activeClients, aborted, lastOp>>
dedupVars == <<processedEventIds, now, calls, windowStart, lastCall>>
evtVars   == <<runtimeReady, tasks, delivered, acked, passLog, ended, lastFailed, propagated>>
vars      == <<conns, activeClients, aborted, lastOp,
               processedEventIds, now, calls, windowStart, lastCall,
               runtimeReady, tasks, delivered, acked, passLog, ended, lastFailed, propagated,
               clientCache, cmd, pipe, bcast, parsed, senderCheck, botInfoCache, bot>>
botVars   == <<botInfoCache, bot>>
fnVars    == <<parsed, senderCheck, botVars>>
bcastVars == <<bcast>>
pipeVars  == <<pipe>>
cmdVars   == <<clientCache, cmd>>

-----------------------------------------------------------------------------
(* Bounds of the model *)

MaxConns == 4           \* WSClients created in one run
MaxSignals == 2         \* distinct AbortSignals handed to start
MaxNow == 90000         \* the clock stops advancing here (ms)
TickMs == 30000         \* the clock advances in steps of this many ms
MaxDeliveries == 2      \* events delivered in one run
MaxInFlight == 2        \* handler tasks suspended at the same time
MaxPages == 2           \* pages of members the platform returns for one listing
MaxPayloads == 2        \* outbound payloads the dispatch produces for one message
MaxBotCalls == 3        \* getBotInfo calls in one run
MaxStarts == 1          \* connections started while a message is followed
MaxAllow == 2           \* entries of an allow list
MaxMentions == 2        \* mention entries of one parsed message
MaxGroups == 3          \* destinations of one broadcast

-----------------------------------------------------------------------------
(* Identifiers.  Account and application ids are strings; they are kept as *)
(* sequences of characters so that the registry key, a concatenation, and  *)
(* the prefix test of stopFeishuMonitor are computed as the code does.     *)

AccountIds == { <<"a">>, <<"a", ":", "b">> }
AppIds     == { <<"x">>, <<"b", ":", "x">> }
NoApp      == << >>     \* account.appId undefined or ""
Signals    == 1..MaxSignals

\* `${account.accountId}:${account.appId}`
ClientKey(acc, app) == acc \o <<":">> \o app

\* String.prototype.includes in the place of startsWith
Includes(s, p) == \E k \in 0..(Len(s) - Len(p)) : SubSeq(s, k + 1, k + Len(p)) = p

\* String.prototype.startsWith
StartsWith(s, p) == Len(s) >= Len(p) /\ SubSeq(s, 1, Len(p)) = p

\* f without the keys in ks (Map.delete)
MapDelete(f, ks) == [k \in (DOMAIN f) \ ks |-> f[k]]

\* f with key k set to v (Map.set)
MapSet(f, k, v) == [x \in (DOMAIN f) \cup {k} |-> IF x = k THEN v ELSE f[x]]

EmptyMap == [k \in {} |-> 0]

-----------------------------------------------------------------------------
(* Connection manager *)

\* lastOp: the operation, and for a start whether it replaced a registered
\* client (restarted) and which one (old); the client a start created is the
\* last of conns
Op(name) == [op |-> name, restarted |-> FALSE, old |-> 0]
NoOp == Op("init")

\* WSClient.stop() on each connection in cs
StopClients(cs, idx) == [i \in DOMAIN cs |-> IF i \in idx THEN [cs[i] EXCEPT !.live = FALSE] ELSE cs[i]]

\* a credential check made only after the client registered under the key
\* has been stopped and unregistered
StartThrowsLate(acc, app, secret) ==
    LET key      == ClientKey(acc, app)
        existing == IF key \in DOMAIN activeClients THEN activeClients[key] ELSE 0
    IN  /\ (app = NoApp \/ ~secret)
        /\ lastOp' = Op("startThrew")
        /\ conns' = IF existing # 0 THEN StopClients(conns, {existing}) ELSE conns
        /\ activeClients' = MapDelete(activeClients, {key})
        /\ UNCHANGED aborted

\* monitorFeishuProvider: the credential check throws before any effect
StartThrows(acc, app, secret) ==
    /\ (app = NoApp \/ ~secret)
    /\ lastOp' = Op("startThrew")
    /\ UNCHANGED <<conns, activeClients, aborted>>

\* monitorFeishuProvider with complete credentials: stop and unregister the
\* client registered under the key, create the new client, register it,
\* start it, add the abort listener.  The function has no await: one step.
Start(acc, app, sig) ==
    LET key      == ClientKey(acc, app)
        existing == IF key \in DOMAIN activeClients THEN activeClients[key] ELSE 0
        stopped  == IF existing # 0 THEN StopClients(conns, {existing}) ELSE conns
        id       == Len(conns) + 1
        ws       == [acc |-> acc, app |-> app, key |-> key, live |-> TRUE, sig |-> sig]
    IN  /\ Len(conns) < MaxConns
        /\ conns' = Append(stopped, ws)
        /\ activeClients' = MapSet(activeClients, key, id)
        /\ lastOp' = [op |-> "start", restarted |-> existing # 0, old |-> existing]
        /\ UNCHANGED aborted

\* the stop closure returned by (and captured in the abort listener of) the
\* start that created connection c: wsClient.stop(); activeClients.delete(clientKey)
StopClosure(cs, reg, c) ==
    [conns |-> StopClients(cs, {c}), reg |-> MapDelete(reg, {cs[c].key})]

\* monitor.stop() on the handle returned by the start that created c
HandleStop(c) ==
    LET r == StopClosure(conns, activeClients, c)
    IN  /\ conns' = r.conns
        /\ activeClients' = r.reg
        /\ lastOp' = Op("handleStop")
        /\ UNCHANGED aborted

\* the abort signal s fires (once): every listener added to it before runs
\* the stop closure of its own start
Abort(s) ==
    LET mine == { c \in DOMAIN conns : conns[c].sig = s }
    IN  /\ s \notin aborted
        /\ aborted' = aborted \cup {s}
        /\ conns' = StopClients(conns, mine)
        /\ activeClients' = MapDelete(activeClients, { conns[c].key : c \in mine })
        /\ lastOp' = Op("abort")

\* stopFeishuMonitor(accountId): every registered key that starts with
\* `${accountId}:` is stopped and deleted
StopFeishuMonitor(acc) ==
    LET hit == { k \in DOMAIN activeClients : StartsWith(k, acc \o <<":">>) }
    IN  /\ conns' = StopClients(conns, { activeClients[k] : k \in hit })
        /\ activeClients' = MapDelete(activeClients, hit)
        /\ lastOp' = Op("stopAccount")
        /\ UNCHANGED aborted

\* stopAllFeishuMonitors()
StopAllFeishuMonitors ==
    /\ conns' = StopClients(conns, { activeClients[k] : k \in DOMAIN activeClients })
    /\ activeClients' = EmptyMap
    /\ lastOp' = Op("stopAll")
    /\ UNCHANGED aborted

ConnInit ==
    /\ conns = << >>
    /\ activeClients = EmptyMap
    /\ aborted = {}
    /\ lastOp = NoOp

-----------------------------------------------------------------------------
(* De-duplication cache *)

EVENT_DEDUP_TTL == 60000

EventIds  == {"e1", "e2"}
Undefined == "undefined"    \* event_id absent
EmptyId   == ""             \* event_id present and empty
AnyId     == EventIds \cup {Undefined, EmptyId}

\* a test that takes only the absent identifier for falsy
FalsyUndefinedOnly(id) == id = Undefined

\* !eventId
Falsy(id) == id = Undefined \/ id = EmptyId

\* cleanupExpiredEventIds deleting an entry already when its age reaches the TTL
cleanupAtTtl(cache, t) ==
    [id \in { i \in DOMAIN cache : ~(t - cache[i] >= EVENT_DEDUP_TTL) } |-> cache[id]]

\* cleanupExpiredEventIds at time t
cleanupExpiredEventIds(cache, t) ==
    [id \in { i \in DOMAIN cache : ~(t - cache[i] > EVENT_DEDUP_TTL) } |-> cache[id]]

\* an isEventProcessed that answers without recording the identifier
isEventProcessedUnrecorded(cache, id, t) ==
    [result |-> ~Falsy(id) /\ id \in DOMAIN cache, cache |-> cache]

\* isEventProcessed(eventId) at time t: the value returned and the cache left
isEventProcessed(cache, id, t) ==
    IF Falsy(id) THEN [result |-> FALSE, cache |-> cache]
    ELSE IF id \in DOMAIN cache THEN [result |-> TRUE, cache |-> cache]
    ELSE [result |-> FALSE, cache |-> cleanupExpiredEventIds(MapSet(cache, id, t), t)]

NoCall == [id |-> Undefined, result |-> FALSE, earlier |-> {}, at |-> -1]

\* a direct call of the exported isEventProcessed
CallIsEventProcessed(id) ==
    LET r == isEventProcessed(processedEventIds, id, now)
    IN  /\ processedEventIds' = r.cache
        /\ lastCall' = [id |-> id, result |-> r.result, earlier |-> calls, at |-> now]
        /\ calls' = calls \cup {id}
        /\ windowStart' = IF windowStart = -1 THEN now ELSE windowStart
        /\ UNCHANGED now

\* clearProcessedEventIds()
clearProcessedEventIds ==
    /\ processedEventIds # EmptyMap
    /\ processedEventIds' = EmptyMap
    /\ calls' = {}
    /\ windowStart' = -1
    /\ lastCall' = NoCall
    /\ UNCHANGED now

\* time passes
Tick ==
    /\ now + TickMs <= MaxNow
    /\ now' = now + TickMs
    /\ UNCHANGED <<processedEventIds, calls, windowStart, lastCall>>

DedupInit ==
    /\ processedEventIds = EmptyMap
    /\ now = 0
    /\ calls = {}
    /\ windowStart = -1
    /\ lastCall = NoCall


-----------------------------------------------------------------------------
(* Sender allow list (monitor.ts) *)

UpperCase == <<"A", "B", "C", "D", "E", "F", "G", "H", "I", "J", "K", "L", "M", "N", "O", "P", "Q", "R", "S", "T", "U", "V", "W", "X", "Y", "Z">>
LowerCase == <<"a", "b", "c", "d", "e", "f", "g", "h", "i", "j", "k", "l", "m", "n", "o", "p", "q", "r", "s", "t", "u", "v", "w", "x", "y", "z">>

\* a toLowerCase that leaves the text as it is
KeepCase(s) == s

\* String.prototype.toLowerCase
ToLowerCase(s) ==
    [i \in 1..Len(s) |->
        IF \E k \in DOMAIN UpperCase : UpperCase[k] = s[i]
        THEN LowerCase[CHOOSE k \in DOMAIN UpperCase : UpperCase[k] = s[i]]
        ELSE s[i]]

\* the alternatives of /^(feishu|user|ou_):/i, each with the colon
ID_PREFIXES == << <<"f", "e", "i", "s", "h", "u", ":">>, <<"u", "s", "e", "r", ":">>, <<"o", "u", "_", ":">> >>

\* s.replace(/^(feishu|user|ou_):/i, ""), trying the alternatives from k on
RECURSIVE StripIdPrefix(_, _)
StripIdPrefix(s, k) ==
    IF k > Len(ID_PREFIXES) THEN s
    ELSE IF StartsWith(ToLowerCase(s), ID_PREFIXES[k])
         THEN SubSeq(s, Len(ID_PREFIXES[k]) + 1, Len(s))
         ELSE StripIdPrefix(s, k + 1)

\* id.toLowerCase().replace(/^(feishu|user|ou_):/i, "")
NormalizeId(id) == StripIdPrefix(ToLowerCase(id), 1)

\* an allowFrom argument: undefined, or an array of entries
NoAllowFrom == [defined |-> FALSE, entries |-> << >>]

\* isSenderAllowed(senderId, allowFrom)
isSenderAllowed(senderId, allowFrom) ==
    IF ~allowFrom.defined \/ Len(allowFrom.entries) = 0 THEN TRUE
    ELSE LET normalizedSenderId == NormalizeId(senderId)
         IN  \E i \in DOMAIN allowFrom.entries :
                NormalizeId(allowFrom.entries[i]) = normalizedSenderId

\* the identifiers of senders and entries: a name in either case, bare or
\* behind a prefix in either case, behind two prefixes, behind "ou_"
IdNames == { <<"a">>, <<"A">>, <<"b">> }
IdForms == { << >>, <<"f", "e", "i", "s", "h", "u", ":">>, <<"U", "S", "E", "R", ":">>, <<"o", "u", "_", ":">>,
             <<"o", "u", "_">>, <<"f", "e", "i", "s", "h", "u", ":", "u", "s", "e", "r", ":">> }
SenderIds == { f \o n : f \in IdForms, n \in IdNames }

AllowLists ==
    {NoAllowFrom}
    \cup { [defined |-> TRUE, entries |-> l] :
             l \in UNION { [1..n -> SenderIds] : n \in 0..MaxAllow } }

NoCheck == [sender |-> << >>, allowFrom |-> NoAllowFrom, result |-> TRUE,
            converse |-> << >>, calls |-> 0]

\* isSenderAllowed(senderId, allowFrom), and for each entry of the list
\* isSenderAllowed(entry, [senderId])
CallIsSenderAllowed(senderId, allowFrom) ==
    /\ senderCheck.calls = 0
    /\ senderCheck' =
        [sender |-> senderId, allowFrom |-> allowFrom,
         result |-> isSenderAllowed(senderId, allowFrom),
         converse |-> [i \in DOMAIN allowFrom.entries |->
                          isSenderAllowed(allowFrom.entries[i],
                                          [defined |-> TRUE, entries |-> <<senderId>>])],
         calls |-> 1]

AllowInit == senderCheck = NoCheck

-----------------------------------------------------------------------------
(* Text.  A string is a sequence of characters; a character outside ASCII  *)
(* is written by its reading ("gong" "gao" for the two characters of the   *)
(* announcement command).                                                  *)

Whitespace == {" "}

RECURSIVE TrimStart(_)
TrimStart(s) == IF s # << >> /\ Head(s) \in Whitespace THEN TrimStart(Tail(s)) ELSE s

RECURSIVE TrimEnd(_)
TrimEnd(s) ==
    IF s # << >> /\ s[Len(s)] \in Whitespace THEN TrimEnd(SubSeq(s, 1, Len(s) - 1)) ELSE s

\* a trim that removes nothing
NoTrim(s) == s

\* String.prototype.trim
Trim(s) == TrimEnd(TrimStart(s))

\* String.prototype.slice(n)
Slice(s, n) == SubSeq(s, n + 1, Len(s))

-----------------------------------------------------------------------------
(* Command parser (commands.ts) *)

\* COMMAND_PREFIXES, in the order of Object.entries
COMMAND_PREFIXES ==
    << [type |-> "announcement",
        prefixes |-> << <<"/", "gong", "gao">>,
                        <<"/", "a", "n", "n", "o", "u", "n", "c", "e", "m", "e", "n", "t">> >>],
       [type |-> "add_member",
        prefixes |-> << <<"/", "la", "ren">>, <<"/", "a", "d", "d">> >>],
       [type |-> "remove_member",
        prefixes |-> << <<"/", "ti", "ren">>, <<"/", "k", "i", "c", "k">>,
                        <<"/", "r", "e", "m", "o", "v", "e">> >>],
       [type |-> "list_members",
        prefixes |-> << <<"/", "cheng", "yuan">>,
                        <<"/", "m", "e", "m", "b", "e", "r", "s">> >> ] >>

Null == [type |-> "null", args |-> << >>, mentionedUserIds |-> << >>]

\* the open_id of every mention, absent ones included
RECURSIVE AllOpenIds(_)
AllOpenIds(mentions) ==
    IF mentions = << >> THEN << >>
    ELSE <<Head(mentions).open_id>> \o AllOpenIds(Tail(mentions))

\* mentions.filter((m) => m.id?.open_id).map((m) => m.id.open_id); a mention
\* is [open_id |-> id], Undefined when it carries none
RECURSIVE MentionedUserIds(_)
MentionedUserIds(mentions) ==
    IF mentions = << >> THEN << >>
    ELSE IF Falsy(Head(mentions).open_id) THEN MentionedUserIds(Tail(mentions))
    ELSE <<Head(mentions).open_id>> \o MentionedUserIds(Tail(mentions))

\* the two nested loops of parseCommand from category i, alias j on
RECURSIVE ParseFrom(_, _, _, _)
ParseFrom(trimmedText, mentions, i, j) ==
    IF i > Len(COMMAND_PREFIXES) THEN Null
    ELSE IF j > Len(COMMAND_PREFIXES[i].prefixes) THEN ParseFrom(trimmedText, mentions, i + 1, 1)
    ELSE LET prefix == COMMAND_PREFIXES[i].prefixes[j]
         IN  IF StartsWith(trimmedText, prefix)
             THEN [type |-> COMMAND_PREFIXES[i].type,
                   args |-> Trim(Slice(trimmedText, Len(prefix))),
                   mentionedUserIds |-> MentionedUserIds(mentions)]
             ELSE ParseFrom(trimmedText, mentions, i, j + 1)

parseCommand(text, mentions) == ParseFrom(Trim(text), mentions, 1, 1)

\* every alias of COMMAND_PREFIXES
AllPrefixes ==
    UNION { { COMMAND_PREFIXES[i].prefixes[j] : j \in DOMAIN COMMAND_PREFIXES[i].prefixes } :
              i \in DOMAIN COMMAND_PREFIXES }

\* the message texts parseCommand is called with: each alias alone, between
\* blanks, followed by an argument with and without a blank before it, inside
\* a sentence, without its slash and in upper case, and texts with no alias
ParseTexts ==
    UNION { { p, <<" ">> \o p \o <<" ">>, p \o <<" ", "x">>, p \o <<"x">>,
              <<" ">> \o p \o <<" ", "x", " ", "y", " ">>,
              <<"q">> \o p, <<"q", " ">> \o p, Tail(p) } : p \in AllPrefixes }
    \cup { << >>, <<" ">>, <<"h", "i">>, <<"/">>, <<"/", "x">>,
           <<"/", "A", "D", "D">>, <<"/", "a", "d">>, <<"/", " ", "a", "d", "d">> }

\* the mention entries of a message: with an open_id, or without one
Mentions == { [open_id |-> id] : id \in {"u1", "u2", Undefined} }

MentionLists == UNION { [1..n -> Mentions] : n \in 0..MaxMentions }

NoParse == [text |-> << >>, mentions |-> << >>, result |-> Null, again |-> Null, calls |-> 0]

\* parseCommand(text, mentions), the first call
CallParseCommand(text, mentions) ==
    /\ parsed.calls = 0
    /\ parsed' = [text |-> text, mentions |-> mentions,
                  result |-> parseCommand(text, mentions), again |-> Null, calls |-> 1]

\* parseCommand called once more with the arguments of the last call
CallParseCommandAgain ==
    /\ parsed.calls = 1
    /\ parsed' = [parsed EXCEPT !.again = parseCommand(parsed.text, parsed.mentions),
                                !.calls = 2]

ParseInit == parsed = NoParse

-----------------------------------------------------------------------------
(* Event router and handlers *)

\* the event types registered with the EventDispatcher: the handler called,
\* and the name handleEventError is given for it
Registered ==
    { [tag |-> "im.message.receive_v1", handler |-> "message",
       logName |-> "im.message.receive_v1"],
      [tag |-> "im.chat.access_event.bot_p2p_chat_entered_v1", handler |-> "userEntered",
       logName |-> "bot_p2p_chat_entered_v1"],
      [tag |-> "im.chat.member.user.added_v1", handler |-> "userAdded",
       logName |-> "user.added_v1"],
      [tag |-> "drive.file.created_in_folder_v1", handler |-> "file",
       logName |-> "file.created_in_folder_v1"],
      [tag |-> "drive.file.deleted_v1", handler |-> "file",
       logName |-> "file.deleted_v1"],
      [tag |-> "drive.file.edit_v1", handler |-> "file",
       logName |-> "file.edit_v1"],
      [tag |-> "calendar.calendar.changed_v4", handler |-> "calendar",
       logName |-> "calendar.changed_v4"],
      [tag |-> "calendar.calendar.event.changed_v4", handler |-> "calendar",
       logName |-> "calendar.event.changed_v4"] }

Reg(tag) == CHOOSE r \in Registered : r.tag = tag

\* message texts the transport delivers
Texts == { <<"h", "i">>,
           <<" ">>,
           <<"/", "gong", "gao", " ", "x">>,
           <<" ", "/", "a", "d", "d">>,
           <<"qing", "/", "gong", "gao", " ", "x">> }

\* lists of users carried by a membership or calendar event: TRUE for a user
\* with an open_id
UserLists == { << >>, <<TRUE>>, <<FALSE, TRUE>> }

\* event payloads.  kind "null": the payload is null.  For a message:
\*   noSender/noMessage  event.sender / event.message missing
\*   image               message_type is not "text"
\*   malformed           content is not JSON
\*   jsonNull            content is the JSON text null
\*   noText              content has no text field (or content is absent)
\*   nonString           content.text is not a string
\*   text                content.text is the string in field text
Payload(kind, text, users) == [kind |-> kind, text |-> text, users |-> users]

Payloads(handler) ==
    CASE handler = "message" ->
            { Payload(k, << >>, << >>) :
                k \in {"null", "noSender", "noMessage", "image", "malformed", "jsonNull",
                       "noText", "nonString"} }
            \cup { Payload("text", t, << >>) : t \in Texts }
      [] handler = "userEntered" ->
            { Payload(k, << >>, << >>) : k \in {"null", "noChatId", "ok"} }
      [] handler = "userAdded" ->
            { Payload(k, << >>, << >>) : k \in {"null", "noChatId", "notIterable"} }
            \cup { Payload("ok", << >>, u) : u \in UserLists }
      [] handler = "file" ->
            { Payload(k, << >>, << >>) : k \in {"null", "ok"} }
      [] handler = "calendar" ->
            { Payload(k, << >>, << >>) : k \in {"null", "notIterable"} }
            \cup { Payload("ok", << >>, u) : u \in UserLists }

DeliveryIds == {"e1", Undefined}

\* what a handler has done when it first suspends or returns:
\*   outcome  "suspended" at pc, or ended: "duplicate", "dropped", "done", "failed"
\*   cache    processedEventIds as the handler leaves it
\*   passed   the dedup check was made and answered false
Step(outcome, pc, text, left, cache, passed) ==
    [outcome |-> outcome, pc |-> pc, text |-> text, left |-> left, cache |-> cache,
     passed |-> passed]

\* the loop `for (const user of users)`: users without an open_id are
\* skipped, the first one with an open_id suspends the task at its send
RECURSIVE NextSend(_, _, _)
NextSend(pc, users, cache) ==
    IF users = << >> THEN Step("done", "", << >>, << >>, cache, TRUE)
    ELSE IF ~Head(users) THEN NextSend(pc, Tail(users), cache)
    ELSE Step("suspended", pc, << >>, Tail(users), cache, TRUE)

\* a handleMessageEvent that records the identifier only for an event it
\* hands to the dispatch: an event it drops or fails on is forgotten
handleMessageEventForgetful(data, id, cache, t, ready) ==
    IF data.kind = "null" THEN Step("failed", "", << >>, << >>, cache, FALSE)
    ELSE LET r == isEventProcessed(cache, id, t)
         IN  IF r.result THEN Step("duplicate", "", << >>, << >>, r.cache, FALSE)
             ELSE IF ~ready THEN Step("failed", "", << >>, << >>, cache, TRUE)
             ELSE IF data.kind \in {"noSender", "noMessage", "image", "malformed", "jsonNull"}
                  THEN Step("dropped", "", << >>, << >>, cache, TRUE)
             ELSE IF data.kind = "nonString" THEN Step("failed", "", << >>, << >>, cache, TRUE)
             ELSE LET textContent == IF data.kind = "noText" THEN << >> ELSE data.text
                  IN  IF Trim(textContent) = << >>
                      THEN Step("dropped", "", << >>, << >>, cache, TRUE)
                      ELSE Step("suspended", "dispatch", textContent, << >>, r.cache, TRUE)

\* handleMessageEvent up to its first await
handleMessageEvent(data, id, cache, t, ready) ==
    IF data.kind = "null" THEN Step("failed", "", << >>, << >>, cache, FALSE)
    ELSE LET r == isEventProcessed(cache, id, t)
         IN  IF r.result THEN Step("duplicate", "", << >>, << >>, r.cache, FALSE)
             ELSE IF ~ready THEN Step("failed", "", << >>, << >>, r.cache, TRUE)
             ELSE IF data.kind \in {"noSender", "noMessage"}
                  THEN Step("dropped", "", << >>, << >>, r.cache, TRUE)
             ELSE IF data.kind = "image" THEN Step("dropped", "", << >>, << >>, r.cache, TRUE)
             ELSE IF data.kind \in {"malformed", "jsonNull"}
                  THEN Step("dropped", "", << >>, << >>, r.cache, TRUE)
             ELSE IF data.kind = "nonString" THEN Step("failed", "", << >>, << >>, r.cache, TRUE)
             ELSE LET textContent == IF data.kind = "noText" THEN << >> ELSE data.text
                  IN  IF Trim(textContent) = << >>
                      THEN Step("dropped", "", << >>, << >>, r.cache, TRUE)
                      ELSE Step("suspended", "dispatch", textContent, << >>, r.cache, TRUE)

\* handleUserEnteredChat up to its first await
handleUserEnteredChat(data, id, cache, t) ==
    IF data.kind = "null" THEN Step("failed", "", << >>, << >>, cache, FALSE)
    ELSE LET r == isEventProcessed(cache, id, t)
         IN  IF r.result THEN Step("duplicate", "", << >>, << >>, r.cache, FALSE)
             ELSE IF data.kind = "noChatId" THEN Step("dropped", "", << >>, << >>, r.cache, TRUE)
             ELSE Step("suspended", "greet", << >>, << >>, r.cache, TRUE)

\* handleUserAddedToGroup up to its first await
handleUserAddedToGroup(data, id, cache, t) ==
    IF data.kind = "null" THEN Step("failed", "", << >>, << >>, cache, FALSE)
    ELSE LET r == isEventProcessed(cache, id, t)
         IN  IF r.result THEN Step("duplicate", "", << >>, << >>, r.cache, FALSE)
             ELSE IF data.kind = "noChatId" THEN Step("dropped", "", << >>, << >>, r.cache, TRUE)
             ELSE IF data.kind = "notIterable"
                  THEN Step("failed", "", << >>, << >>, r.cache, TRUE)
             ELSE IF data.users = << >> THEN Step("dropped", "", << >>, << >>, r.cache, TRUE)
             ELSE NextSend("welcome", data.users, r.cache)

\* a handleFileEvent that goes to listBotGroups without the dedup check
handleFileEventUnchecked(data, id, cache, t) ==
    IF data.kind = "null" THEN Step("failed", "", << >>, << >>, cache, FALSE)
    ELSE Step("suspended", "listGroups", << >>, << >>, cache, TRUE)

\* handleFileEvent up to its first await
handleFileEvent(data, id, cache, t) ==
    IF data.kind = "null" THEN Step("failed", "", << >>, << >>, cache, FALSE)
    ELSE LET r == isEventProcessed(cache, id, t)
         IN  IF r.result THEN Step("duplicate", "", << >>, << >>, r.cache, FALSE)
             ELSE Step("suspended", "listGroups", << >>, << >>, r.cache, TRUE)

\* handleCalendarEvent up to its first await
handleCalendarEvent(data, id, cache, t) ==
    IF data.kind = "null" THEN Step("failed", "", << >>, << >>, cache, FALSE)
    ELSE LET r == isEventProcessed(cache, id, t)
         IN  IF r.result THEN Step("duplicate", "", << >>, << >>, r.cache, FALSE)
             ELSE IF data.kind = "notIterable"
                  THEN Step("failed", "", << >>, << >>, r.cache, TRUE)
             ELSE IF data.users = << >> THEN Step("dropped", "", << >>, << >>, r.cache, TRUE)
             ELSE NextSend("notify", data.users, r.cache)

Handle(handler, data, id, cache, t, ready) ==
    CASE handler = "message"     -> handleMessageEvent(data, id, cache, t, ready)
      [] handler = "userEntered" -> handleUserEnteredChat(data, id, cache, t)
      [] handler = "userAdded"   -> handleUserAddedToGroup(data, id, cache, t)
      [] handler = "file"        -> handleFileEvent(data, id, cache, t)
      [] handler = "calendar"    -> handleCalendarEvent(data, id, cache, t)

\* a rejected handler promise left without its .catch: nothing is logged and
\* the rejection escapes
NoCatch(acc, tag) == [logged |-> << >>, propagated |-> TRUE]

\* handler(...).catch((err) => handleEventError(eventType, err)): the
\* rejection is logged with the account and the event type, and goes no further
handleEventError(acc, tag) == [logged |-> <<acc, Reg(tag).logName>>, propagated |-> FALSE]

\* a callback that awaits its handler returns only once the task has ended
ReturnsAfterTask(outcome) == outcome # "suspended"

\* the registered callback calls the handler, attaches .catch and returns:
\* it has returned whatever the task is doing
CallbackReturned(outcome) == TRUE

NoTask == [serial |-> 0, acc |-> << >>, tag |-> "", outcome |-> "none", logged |-> << >>]

\* the record left by a task that ends
Ended(serial, acc, tag, outcome) ==
    [serial |-> serial, acc |-> acc, tag |-> tag, outcome |-> outcome,
     logged |-> IF outcome = "failed" THEN handleEventError(acc, tag).logged ELSE << >>]

\* a task ends with the given outcome
End(task, outcome) ==
    /\ tasks' = tasks \ {task}
    /\ ended' = Ended(task.serial, task.acc, task.tag, outcome)
    /\ lastFailed' = IF outcome = "failed" THEN task.serial ELSE lastFailed
    /\ propagated' = (propagated \/ (outcome = "failed" /\ handleEventError(task.acc, task.tag).propagated))

\* a task moves on to its next await
Continue(task, pc, left) ==
    /\ tasks' = (tasks \ {task}) \cup {[task EXCEPT !.pc = pc, !.left = left]}
    /\ ended' = NoTask
    /\ UNCHANGED <<lastFailed, propagated>>

\* setFeishuRuntime(next)
setFeishuRuntime ==
    /\ ~runtimeReady
    /\ runtimeReady' = TRUE
    /\ ended' = NoTask
    /\ UNCHANGED <<tasks, delivered, acked, passLog, lastFailed, propagated>>
    /\ UNCHANGED <<processedEventIds, now, calls, windowStart, lastCall>>

\* the transport delivers an event of a registered type to its callback,
\* which runs the handler to its first await (or to its end) and returns
Deliver(acc, tag, id, data) ==
    LET serial == delivered + 1
        h == Handle(Reg(tag).handler, data, id, processedEventIds, now, runtimeReady)
    IN  /\ delivered < MaxDeliveries
        /\ Cardinality(tasks) < MaxInFlight
        /\ ~propagated
        /\ delivered' = serial
        /\ processedEventIds' = h.cache
        /\ acked' = IF CallbackReturned(h.outcome) THEN acked \cup {serial} ELSE acked
        /\ passLog' = IF h.passed /\ ~Falsy(id)
                      THEN Append(passLog, [id |-> id, at |-> now])
                      ELSE passLog
        /\ IF h.outcome = "suspended"
           THEN /\ tasks' = tasks \cup {[serial |-> serial, acc |-> acc, tag |-> tag, id |-> id,
                                         pc |-> h.pc, text |-> h.text, left |-> h.left]}
                /\ ended' = NoTask
                /\ UNCHANGED <<lastFailed, propagated>>
           ELSE /\ tasks' = tasks
                /\ ended' = Ended(serial, acc, tag, h.outcome)
                /\ lastFailed' = IF h.outcome = "failed" THEN serial ELSE lastFailed
                /\ propagated' = (propagated \/ (h.outcome = "failed"
                                                 /\ handleEventError(acc, tag).propagated))
        /\ UNCHANGED <<runtimeReady, now, calls, windowStart, lastCall>>

\* a router with a queue: the dispatch of a task settles only once every
\* task delivered before it has ended
DispatchSettlesInOrder(task, ok) ==
    /\ task \in tasks /\ task.pc = "dispatch"
    /\ \A other \in tasks : other.serial >= task.serial
    /\ IF ok THEN Continue(task, "waitIdle", << >>) ELSE End(task, "failed")
    /\ UNCHANGED <<runtimeReady, delivered, acked, passLog>>
    /\ UNCHANGED <<processedEventIds, now, calls, windowStart, lastCall>>

\* dispatchReplyFromConfig settles: resolved, the task awaits
\* dispatcher.waitForIdle(); rejected, it runs the finally block and fails
DispatchSettles(task, ok) ==
    /\ task \in tasks /\ task.pc = "dispatch"
    /\ IF ok THEN Continue(task, "waitIdle", << >>) ELSE End(task, "failed")
    /\ UNCHANGED <<runtimeReady, delivered, acked, passLog>>
    /\ UNCHANGED <<processedEventIds, now, calls, windowStart, lastCall>>

\* dispatcher.waitForIdle() settles; the finally block runs either way
IdleSettles(task, ok) ==
    /\ task \in tasks /\ task.pc = "waitIdle"
    /\ End(task, IF ok THEN "done" ELSE "failed")
    /\ UNCHANGED <<runtimeReady, delivered, acked, passLog>>
    /\ UNCHANGED <<processedEventIds, now, calls, windowStart, lastCall>>

\* sendFeishuMessage / sendFeishuMentionMessage returns its result (success
\* or not, it never throws): the greeting ends the task, a welcome or a
\* notification goes on with the next user
SendSettles(task, success) ==
    /\ task \in tasks /\ task.pc \in {"greet", "welcome", "notify"}
    /\ LET n == NextSend(task.pc, task.left, processedEventIds)
       IN  IF task.pc = "greet" \/ n.outcome = "done"
           THEN End(task, "done")
           ELSE Continue(task, task.pc, n.left)
    /\ UNCHANGED <<runtimeReady, delivered, acked, passLog>>
    /\ UNCHANGED <<processedEventIds, now, calls, windowStart, lastCall>>

\* listBotGroups returns: an error or no group ends the task, otherwise
\* the task awaits broadcastToGroups
GroupsListed(task, res) ==
    /\ task \in tasks /\ task.pc = "listGroups"
    /\ IF res = "groups" THEN Continue(task, "broadcast", << >>) ELSE End(task, "done")
    /\ UNCHANGED <<runtimeReady, delivered, acked, passLog>>
    /\ UNCHANGED <<processedEventIds, now, calls, windowStart, lastCall>>

\* broadcastToGroups returns its counts
BroadcastSettles(task) ==
    /\ task \in tasks /\ task.pc = "broadcast"
    /\ End(task, "done")
    /\ UNCHANGED <<runtimeReady, delivered, acked, passLog>>
    /\ UNCHANGED <<processedEventIds, now, calls, windowStart, lastCall>>

\* time passes while events are handled
EvtTick ==
    /\ Tick
    /\ ended' = NoTask
    /\ UNCHANGED <<runtimeReady, tasks, delivered, acked, passLog, lastFailed, propagated>>

EvtInit ==
    /\ runtimeReady = FALSE
    /\ tasks = {}
    /\ delivered = 0
    /\ acked = {}
    /\ passLog = << >>
    /\ ended = NoTask
    /\ lastFailed = 0
    /\ propagated = FALSE

-----------------------------------------------------------------------------
(* API client cache (api.ts) *)

\* accounts handed to the API: [appId, secret]; secret FALSE when
\* account.appSecret is missing
ApiAccounts == { [appId |-> <<"x">>, secret |-> TRUE],
                 [appId |-> <<"x">>, secret |-> FALSE],
                 [appId |-> NoApp, secret |-> TRUE] }

\* getFeishuClient: the cached client; else throws on incomplete
\* credentials; else creates and caches one
getFeishuClient(account, cache) ==
    IF account.appId \in cache THEN [threw |-> FALSE, cache |-> cache]
    ELSE IF account.appId = NoApp \/ ~account.secret THEN [threw |-> TRUE, cache |-> cache]
    ELSE [threw |-> FALSE, cache |-> cache \cup {account.appId}]

-----------------------------------------------------------------------------
(* Platform responses.  A request ends in one of                           *)
(*   ok     code 0, with data                                              *)
(*   code   a non-zero (or missing) code; msg absent, empty or a text      *)
(*   raise  the request throws; the error message empty, a text, or (for   *)
(*          the announcement read) the "docx type" / 232097 error          *)

Resp(kind, msg, data) == [kind |-> kind, msg |-> msg, data |-> data]

Failures == { Resp("code", m, 0) : m \in {"none", "empty", "text"} }
            \cup { Resp("raise", m, 0) : m \in {"empty", "text"} }

\* error strings: "" and Undefined are falsy
\* response.msg ?? `Feishu API error: ${response.code}`
MsgOrFallback(msg) == CASE msg = "none" -> "fallback" [] msg = "empty" -> EmptyId [] OTHER -> "msg"
\* response.msg
MsgOnly(msg) == CASE msg = "none" -> Undefined [] msg = "empty" -> EmptyId [] OTHER -> "msg"
\* err instanceof Error ? err.message : String(err)
ErrMessage(msg) == IF msg = "empty" THEN EmptyId ELSE "msg"
\* extractFeishuError(err): an empty message falls through to String(err)
extractFeishuError(msg) == IF msg = "docx" THEN "docx" ELSE "msg"

\* the error a wrapper with the `msg ?? fallback` pattern returns for a failure
WrapperError(resp) == IF resp.kind = "code" THEN MsgOrFallback(resp.msg) ELSE ErrMessage(resp.msg)

-----------------------------------------------------------------------------
(* Command executor (commands.ts) and the API operations it calls (api.ts) *)

CommandTypes == {"announcement", "add_member", "remove_member", "list_members"}
ADMIN_REQUIRED_COMMANDS == {"announcement", "add_member", "remove_member"}

\* requiresAdminPermission
\* a requiresAdminPermission that gates nothing
requiresNoPermission(type) == FALSE

\* a requiresAdminPermission that gates every command
requiresPermissionAlways(type) == TRUE

requiresAdminPermission(type) == type \in ADMIN_REQUIRED_COMMANDS

\* the requests that change the group
Mutations == {"PATCH announcement", "POST blocks", "POST members", "DELETE members"}

\* what a message says besides its fixed text: the count of users and the
\* count of invalid ones (0: no note) of a membership message; the numbered
\* lines, the total and the "..." of a member list
NoDetail == [count |-> 0, invalid |-> 0, lines |-> << >>, total |-> 0, more |-> FALSE]

NoResult == [status |-> "none", success |-> FALSE, message |-> "", error |-> Undefined,
             detail |-> NoDetail]
Returned(success, message, error) ==
    [status |-> "returned", success |-> success, message |-> message, error |-> error,
     detail |-> NoDetail]
Threw == [status |-> "threw", success |-> FALSE, message |-> "", error |-> "creds",
          detail |-> NoDetail]

\* ops: the membership and listing operations of api.ts the command has
\* called, with their memberIds; opResult: what the last of them returned
\* ("ok", or "failed" when it returned success: false or an error key);
\* invalidIds: the length of the invalidIds it returned;
\* thrownBy: the API operation whose exception was not caught
Idle == [pc |-> "idle", account |-> [appId |-> NoApp, secret |-> FALSE], type |-> "",
         args |-> << >>, mentioned |-> << >>, role |-> "", calls |-> << >>,
         checkFailed |-> FALSE, perm |-> "none", members |-> << >>, page |-> 0,
         ops |-> << >>, opResult |-> "none", invalidIds |-> 0, thrownBy |-> "none",
         read |-> "none", readRevision |-> 0, patchRevision |-> -1,
         groups |-> << >>, cursor |-> 0,
         result |-> NoResult]

\* executeCommand returns
Finish(c, res) == [c EXCEPT !.pc = "done", !.result = res]

\* a request is sent: the call is suspended at pc
Request(c, pc, endpoint) == [c EXCEPT !.pc = pc, !.calls = Append(@, endpoint)]

\* the failure each action reports when its API operation fails
FailedMessage(type) ==
    CASE type = "announcement" -> "updateFailed"
      [] type = "add_member" -> "addFailed"
      [] type = "remove_member" -> "removeFailed"
      [] type = "list_members" -> "listFailed"

\* updateDocxAnnouncement up to its first request: the client lookup is
\* outside the try block, so its exception leaves executeCommand
updateDocxAnnouncement(c, cache) ==
    LET g == getFeishuClient(c.account, cache)
    IN  IF g.threw
        THEN [cmd |-> Finish([c EXCEPT !.thrownBy = "updateGroupAnnouncement"], Threw),
              cache |-> g.cache]
        ELSE [cmd |-> Request(c, "blocksGet", "GET blocks"), cache |-> g.cache]

\* an API operation up to its first request: the client lookup is inside the
\* try block, so its exception becomes the operation's error
Call(c, cache, pc, endpoint) ==
    LET g == getFeishuClient(c.account, cache)
    IN  IF g.threw
        THEN [cmd |-> Finish([c EXCEPT !.opResult = "failed"],
                             Returned(FALSE, FailedMessage(c.type), "creds")),
              cache |-> g.cache]
        ELSE [cmd |-> Request(c, pc, endpoint), cache |-> g.cache]

\* updateGroupAnnouncement up to its first await: blank content is refused;
\* else getGroupAnnouncement reads the current announcement
updateGroupAnnouncement(c, cache) ==
    IF Trim(c.args) = << >>
    THEN [cmd |-> Finish(c, Returned(FALSE, "updateFailed", "emptyContent")), cache |-> cache]
    ELSE Call(c, cache, "annGet", "GET announcement")

\* c with the call of an operation of api.ts recorded
Invoke(c, op, memberIds) == [c EXCEPT !.ops = Append(@, [op |-> op, memberIds |-> memberIds])]

\* a test of memberIds that never finds the list empty
NeverEmpty(memberIds) == FALSE

\* memberIds.length === 0
NoMemberIds(memberIds) == Len(memberIds) = 0

\* the switch of executeCommand, reached without a permission check
\* (list_members) or after one that granted permission
Switch(c, cache) ==
    CASE c.type = "announcement" ->
            \* executeAnnouncementCommand, updateGroupAnnouncement, getGroupAnnouncement
            IF Trim(c.args) = << >>
            THEN [cmd |-> Finish(c, Returned(FALSE, "usageAnnouncement", Undefined)), cache |-> cache]
            ELSE updateGroupAnnouncement(c, cache)
      [] c.type = "add_member" ->
            \* executeAddMemberCommand, addMembersToGroup
            IF NoMemberIds(c.mentioned)
            THEN [cmd |-> Finish(c, Returned(FALSE, "usageAdd", Undefined)), cache |-> cache]
            ELSE Call(Invoke(c, "addMembersToGroup", c.mentioned), cache,
                      "addMembers", "POST members")
      [] c.type = "remove_member" ->
            \* executeRemoveMemberCommand, removeMembersFromGroup
            IF NoMemberIds(c.mentioned)
            THEN [cmd |-> Finish(c, Returned(FALSE, "usageRemove", Undefined)), cache |-> cache]
            ELSE Call(Invoke(c, "removeMembersFromGroup", c.mentioned), cache,
                      "removeMembers", "DELETE members")
      [] c.type = "list_members" ->
            \* executeListMembersCommand, getGroupMembers
            Call(Invoke(c, "getGroupMembers", << >>), cache, "members", "GET members")
      [] OTHER -> [cmd |-> Finish(c, Returned(FALSE, "unknown", Undefined)), cache |-> cache]

\* an executeCommand that validates the arguments before it looks at the
\* result of the permission check
GateAfterValidation(c, cache, isAdmin, isOwner, error) ==
    IF Switch(c, cache).cmd.pc = "done"
    THEN Switch(c, cache)
    ELSE IF ~Falsy(error)
    THEN [cmd |-> Finish([c EXCEPT !.perm = "error"], Returned(FALSE, "checkFailed", error)),
          cache |-> cache]
    ELSE IF ~isAdmin /\ ~isOwner
    THEN [cmd |-> Finish([c EXCEPT !.perm = "denied"], Returned(FALSE, "denied", Undefined)),
          cache |-> cache]
    ELSE Switch([c EXCEPT !.perm = "granted"], cache)

\* executeCommand after isUserGroupAdmin has returned {isAdmin, isOwner, error}
Gate(c, cache, isAdmin, isOwner, error) ==
    IF ~Falsy(error)
    THEN [cmd |-> Finish([c EXCEPT !.perm = "error"], Returned(FALSE, "checkFailed", error)),
          cache |-> cache]
    ELSE IF ~isAdmin /\ ~isOwner
    THEN [cmd |-> Finish([c EXCEPT !.perm = "denied"], Returned(FALSE, "denied", Undefined)),
          cache |-> cache]
    ELSE Switch([c EXCEPT !.perm = "granted"], cache)

\* isUserGroupAdmin reporting no error when the administrator query fails
\* without a message: response.msg, with no fallback
ManagersError(resp) == IF resp.kind = "code" THEN MsgOnly(resp.msg) ELSE ErrMessage(resp.msg)

\* executeCommand is called: the permission check of a gated command starts
\* with getGroupInfo, any other command goes to the switch
executeCommand(account, type, args, mentioned, role, cache) ==
    LET c == [Idle EXCEPT !.account = account, !.type = type, !.args = args,
                          !.mentioned = mentioned, !.role = role]
        g == getFeishuClient(account, cache)
    IN  IF requiresAdminPermission(type)
        THEN IF g.threw
             THEN Gate([c EXCEPT !.checkFailed = TRUE], g.cache, FALSE, FALSE, "creds")
             ELSE [cmd |-> Request(c, "groupInfo", "GET chat"), cache |-> g.cache]
        ELSE Switch(c, cache)

\* executeCommand is called while no other call is in progress
ExecuteCommand(account, type, args, mentioned, role) ==
    LET r == executeCommand(account, type, args, mentioned, role, clientCache)
    IN  /\ cmd.pc \in {"idle", "done"}
        /\ cmd' = r.cmd
        /\ clientCache' = r.cache

\* getGroupInfo's request ends; isUserGroupAdmin goes on with the
\* administrator query unless the sender is the owner or an error is reported
GroupInfoResponds(resp) ==
    LET error   == IF resp.kind = "ok" THEN Undefined ELSE WrapperError(resp)
        isOwner == resp.kind = "ok" /\ cmd.role = "owner"
        c       == [cmd EXCEPT !.checkFailed = (resp.kind # "ok")]
        g       == getFeishuClient(c.account, clientCache)
        r == IF ~Falsy(error) THEN Gate(c, clientCache, FALSE, FALSE, error)
             ELSE IF isOwner THEN Gate(c, clientCache, TRUE, TRUE, Undefined)
             ELSE IF g.threw THEN Gate([c EXCEPT !.checkFailed = TRUE], g.cache, FALSE, FALSE, "creds")
             ELSE [cmd |-> Request(c, "managers", "GET managers"), cache |-> g.cache]
    IN  /\ cmd.pc = "groupInfo"
        /\ cmd' = r.cmd
        /\ clientCache' = r.cache

\* the administrator query of isUserGroupAdmin ends
ManagersResponds(resp) ==
    LET error   == IF resp.kind = "ok" THEN Undefined ELSE ManagersError(resp)
        isAdmin == resp.kind = "ok" /\ cmd.role = "admin"
        c       == [cmd EXCEPT !.checkFailed = (@ \/ resp.kind # "ok")]
        r       == Gate(c, clientCache, isAdmin, FALSE, error)
    IN  /\ cmd.pc = "managers"
        /\ cmd' = r.cmd
        /\ clientCache' = r.cache

\* getGroupAnnouncement's request ends; updateGroupAnnouncement picks the
\* block-document update, the failure, or the revision-based PATCH
AnnouncementReadResponds(resp) ==
    LET error == CASE resp.kind = "ok" -> Undefined
                   [] resp.kind = "code" -> MsgOrFallback(resp.msg)
                   [] OTHER -> extractFeishuError(resp.msg)
        isDocxType == resp.kind = "raise" /\ error = "docx"
        c == [cmd EXCEPT !.read = IF resp.kind = "ok" THEN "ok"
                                  ELSE IF isDocxType THEN "docx" ELSE "failed",
                         !.readRevision = IF resp.kind = "ok" THEN resp.data ELSE 0]
        r == IF isDocxType THEN updateDocxAnnouncement(c, clientCache)
             ELSE IF ~Falsy(error)
             THEN [cmd |-> Finish(c, Returned(FALSE, "updateFailed", error)), cache |-> clientCache]
             ELSE Call([c EXCEPT !.patchRevision = c.readRevision], clientCache,
                       "annPatch", "PATCH announcement")
    IN  /\ cmd.pc = "annGet"
        /\ cmd' = r.cmd
        /\ clientCache' = r.cache

\* the ends of the announcement read: a failure, the "docx type" error, a
\* transport error, or data without a revision (0) or with revision 7
AnnouncementReads ==
    Failures \cup {Resp("ok", "none", 0), Resp("ok", "none", 7),
                   Resp("raise", "docx", 0), Resp("raise", "text", 0)}

\* updateGroupAnnouncement is called by a caller of its own
CallUpdateGroupAnnouncement(account, content) ==
    LET c == [Idle EXCEPT !.account = account, !.type = "announcement", !.args = content]
        r == updateGroupAnnouncement(c, clientCache)
    IN  /\ cmd.pc \in {"idle", "done"}
        /\ cmd' = r.cmd
        /\ clientCache' = r.cache

\* updateDocxAnnouncement: the block listing ends; resp.data is 1 when it
\* holds a page block with a block_id
BlocksResponds(resp) ==
    /\ cmd.pc = "blocksGet"
    /\ cmd' = IF resp.kind # "ok"
              THEN Finish(cmd, Returned(FALSE, "updateFailed",
                                        IF resp.kind = "code" THEN MsgOrFallback(resp.msg)
                                        ELSE extractFeishuError(resp.msg)))
              ELSE IF resp.data = 1 THEN Request(cmd, "blockCreate", "POST blocks")
              ELSE Finish(cmd, Returned(FALSE, "updateFailed", "noRootBlock"))
    /\ UNCHANGED clientCache

\* a write request (block creation, announcement PATCH) ends
AnnouncementWriteResponds(resp) ==
    /\ cmd.pc \in {"blockCreate", "annPatch"}
    /\ cmd' = IF resp.kind = "ok" THEN Finish(cmd, Returned(TRUE, "updated", Undefined))
              ELSE Finish(cmd, Returned(FALSE, "updateFailed",
                                        IF resp.kind = "code" THEN MsgOrFallback(resp.msg)
                                        ELSE extractFeishuError(resp.msg)))
    /\ UNCHANGED clientCache

\* a membership command that fails when the platform lists invalid ids
FailsOnInvalidIds(type, memberIds, invalidIds) ==
    [Returned(invalidIds = 0, IF type = "add_member" THEN "added" ELSE "removed", Undefined)
        EXCEPT !.detail = [NoDetail EXCEPT !.count = Len(memberIds), !.invalid = invalidIds]]

\* executeAddMemberCommand / executeRemoveMemberCommand after a success of the
\* operation: the message names memberIds.length and, when ids were invalid,
\* their number
MembershipDone(type, memberIds, invalidIds) ==
    [Returned(TRUE, IF type = "add_member" THEN "added" ELSE "removed", Undefined)
        EXCEPT !.detail = [NoDetail EXCEPT !.count = Len(memberIds), !.invalid = invalidIds]]

\* addMembersToGroup / removeMembersFromGroup: the request ends; resp.data
\* is the number of ids the platform lists as invalid (invalid_id_list and,
\* for an addition, not_existed_id_list)
MembershipResponds(resp) ==
    /\ cmd.pc \in {"addMembers", "removeMembers"}
    /\ cmd' = IF resp.kind = "ok"
              THEN Finish([cmd EXCEPT !.opResult = "ok", !.invalidIds = resp.data],
                          MembershipDone(cmd.type, cmd.mentioned, resp.data))
              ELSE Finish([cmd EXCEPT !.opResult = "failed"],
                          Returned(FALSE, FailedMessage(cmd.type), WrapperError(resp)))
    /\ UNCHANGED clientCache

\* a member_id, a name that a page item lacks
NoId   == <<Undefined>>
NoName == <<Undefined>>

\* getGroupMembers: the members of a page, which are its items with a member_id
PageMembers(items) ==
    LET withId == SelectSeq(items, LAMBDA item : item.member_id # NoId)
    IN  [i \in 1..Len(withId) |-> [memberId |-> withId[i].member_id, name |-> withId[i].name]]

\* members.slice(0, 50)
DISPLAY_LIMIT == 50

\* executeListMembersCommand once getGroupMembers has returned {members, error}
executeListMembersCommand(members, error) ==
    IF ~Falsy(error) THEN Returned(FALSE, "listFailed", error)
    ELSE IF Len(members) = 0 THEN Returned(TRUE, "noMembers", Undefined)
    ELSE LET shown == IF Len(members) > DISPLAY_LIMIT THEN DISPLAY_LIMIT ELSE Len(members)
         IN  [Returned(TRUE, "memberList", Undefined)
                EXCEPT !.detail =
                   [NoDetail EXCEPT
                      !.lines = [i \in 1..shown |->
                                   [n |-> i,
                                    text |-> IF members[i].name # NoName THEN members[i].name
                                             ELSE members[i].memberId]],
                      !.total = Len(members),
                      !.more = Len(members) > DISPLAY_LIMIT]]

\* a member listing that returns the members fetched so far when a later
\* page fails
MembersRespondsPartial(resp) ==
    LET error == WrapperError(resp)
        total == cmd.members \o PageMembers(resp.data.items)
    IN  /\ cmd.pc = "members"
        /\ cmd' = IF resp.kind # "ok"
                  THEN Finish([cmd EXCEPT !.opResult = "failed"],
                              executeListMembersCommand(<< >>, error))
                  ELSE IF resp.data.more /\ resp.data.token # 0
                       THEN [Request(cmd, "members", "GET members")
                                EXCEPT !.members = total, !.page = @ + 1,
                                       !.cursor = resp.data.token]
                       ELSE Finish([cmd EXCEPT !.members = total, !.opResult = "ok"],
                                   executeListMembersCommand(total, Undefined))
        /\ UNCHANGED clientCache

\* getGroupMembers: a page arrives; resp.data = [items, more, token].  The
\* listing goes on while has_more is set and a page token came with it; a
\* failure returns no members and the error.
MembersResponds(resp) ==
    LET error == WrapperError(resp)
        total == cmd.members \o PageMembers(resp.data.items)
    IN  /\ cmd.pc = "members"
        /\ cmd' = IF resp.kind # "ok"
                  THEN Finish([cmd EXCEPT !.members = << >>, !.opResult = "failed"],
                              executeListMembersCommand(<< >>, error))
                  ELSE IF resp.data.more /\ resp.data.token # 0
                       THEN [Request(cmd, "members", "GET members")
                                EXCEPT !.members = total, !.page = @ + 1,
                                       !.cursor = resp.data.token]
                       ELSE Finish([cmd EXCEPT !.members = total, !.opResult = "ok"],
                                   executeListMembersCommand(total, Undefined))
        /\ UNCHANGED clientCache

\* clearFeishuClientCache(appId?)
clearFeishuClientCache ==
    /\ clientCache # {}
    /\ clientCache' = {}
    /\ UNCHANGED cmd

\* another caller obtains the client of an account with complete credentials
WarmClientCache(account) ==
    /\ ~getFeishuClient(account, clientCache).threw
    /\ clientCache' = getFeishuClient(account, clientCache).cache
    /\ clientCache' # clientCache
    /\ UNCHANGED cmd

\* clearFeishuClientCache(appId) with an application id
clearFeishuClientCacheOf(appId) ==
    /\ appId \in clientCache
    /\ clientCache' = clientCache \ {appId}
    /\ UNCHANGED cmd

\* the accounts getBotInfo is called with
BotAccounts == ApiAccounts \cup { [appId |-> <<"b", ":", "x">>, secret |-> TRUE] }

\* response.bot.open_id of the bot of an application; 0 stands for a
\* response without one
BotOpenId(appId) == IF appId = <<"x">> THEN 1 ELSE 2

NoBot == [pc |-> "idle", account |-> [appId |-> NoApp, secret |-> FALSE], calls |-> 0,
          requests |-> 0, fromCache |-> FALSE, openId |-> 0, error |-> FALSE]

\* getBotInfo(account) up to its await: the cached entry if there is one;
\* else getFeishuClient, whose throw becomes {error}; else GET bot/v3/info
GetBotInfo(account) ==
    LET call   == [NoBot EXCEPT !.account = account, !.calls = bot.calls + 1]
        client == getFeishuClient(account, clientCache)
    IN  /\ bot.pc \in {"idle", "done"}
        /\ bot.calls < MaxBotCalls
        /\ UNCHANGED <<botInfoCache, cmd>>
        /\ IF account.appId \in DOMAIN botInfoCache
           THEN /\ bot' = [call EXCEPT !.pc = "done", !.fromCache = TRUE,
                                       !.openId = botInfoCache[account.appId]]
                /\ UNCHANGED clientCache
           ELSE IF client.threw
           THEN /\ bot' = [call EXCEPT !.pc = "done", !.error = TRUE]
                /\ UNCHANGED clientCache
           ELSE /\ bot' = [call EXCEPT !.pc = "wait", !.requests = 1]
                /\ clientCache' = client.cache

\* the bot info request ends: a non-zero code or a throw is returned as
\* {error}; a result is cached only when it has an open id
BotInfoResponds(resp) ==
    /\ bot.pc = "wait"
    /\ UNCHANGED <<clientCache, cmd>>
    /\ IF resp.kind = "ok"
       THEN /\ bot' = [bot EXCEPT !.pc = "done", !.openId = resp.data]
            /\ botInfoCache' = IF resp.data # 0
                               THEN MapSet(botInfoCache, bot.account.appId, resp.data)
                               ELSE botInfoCache
       ELSE /\ bot' = [bot EXCEPT !.pc = "done", !.error = TRUE]
            /\ UNCHANGED botInfoCache

BotInit == botInfoCache = EmptyMap /\ bot = NoBot

\* response.data.page_token of page number page, when the page has one
PageToken(page) == 10 + page

\* n items of page number page: the even ones named when some is true, all
\* named when all is true
Items(n, page, some, all) ==
    [i \in 1..n |-> [member_id |-> <<"ou", 100 * page + i>>,
                     name |-> IF all \/ (some /\ i % 2 = 0) THEN <<"name", 100 * page + i>>
                              ELSE NoName]]

\* the item lists of a page: none, one with a name, one without, one
\* without member_id before one with, and lists that reach and exceed the
\* number of members displayed
PageItems(page) ==
    { Items(0, page, FALSE, FALSE), Items(1, page, FALSE, TRUE), Items(1, page, FALSE, FALSE),
      <<[member_id |-> NoId, name |-> <<"name", 100 * page>>]>> \o Items(1, page, FALSE, FALSE),
      Items(DISPLAY_LIMIT, page, TRUE, FALSE), Items(DISPLAY_LIMIT + 1, page, TRUE, FALSE) }

MemberPages(page) ==
    { [items |-> items, more |-> m, token |-> t] :
         items \in PageItems(page), m \in BOOLEAN, t \in {0, PageToken(page)} }

\* the ends of a request of the member listing
MemberResponses ==
    { Resp(f.kind, f.msg, [items |-> << >>, more |-> FALSE, token |-> 0]) :
         f \in Failures \cup {Resp("raise", "text", 0), Resp("raise", "empty", 0)} }
    \cup { Resp("ok", "none", d) :
             d \in { m \in MemberPages(cmd.page) : m.more => cmd.page + 1 < MaxPages } }

\* listBotGroups: the groups of a page, which are its items with a chat_id
PageGroups(items) == SelectSeq(items, LAMBDA item : item.chat_id # NoId)

\* the pages of the group listing: no item, one group, and an item without
\* chat_id before a group
GroupPages(page) ==
    { [items |-> items, more |-> m, token |-> t] :
         items \in { << >>,
                     <<[chat_id |-> <<"oc", 10 * page + 1>>, name |-> NoName]>>,
                     <<[chat_id |-> NoId, name |-> <<"g">>],
                       [chat_id |-> <<"oc", 10 * page + 2>>, name |-> <<"g">>]>> },
         m \in BOOLEAN, t \in {0, PageToken(page)} }

\* the ends of a request of the group listing
GroupResponses ==
    { Resp(f.kind, f.msg, [items |-> << >>, more |-> FALSE, token |-> 0]) :
         f \in Failures \cup {Resp("raise", "text", 0)} }
    \cup { Resp("ok", "none", d) :
             d \in { g \in GroupPages(cmd.page) : g.more => cmd.page + 1 < MaxPages } }

\* listBotGroups(account) up to its first request: getFeishuClient is inside
\* the try block, its throw is returned as {groups: [], error}
CallListBotGroups(account) ==
    LET c == [Idle EXCEPT !.account = account, !.type = "listBotGroups"]
        g == getFeishuClient(account, clientCache)
    IN  /\ cmd.pc \in {"idle", "done"}
        /\ cmd' = IF g.threw
                  THEN Finish([c EXCEPT !.opResult = "failed"], Returned(FALSE, "groups", "creds"))
                  ELSE Request(c, "groups", "GET chats")
        /\ clientCache' = g.cache

\* listBotGroups: a page arrives
GroupsResponds(resp) ==
    LET total == cmd.groups \o PageGroups(resp.data.items)
    IN  /\ cmd.pc = "groups"
        /\ cmd' = IF resp.kind # "ok"
                  THEN Finish([cmd EXCEPT !.groups = << >>, !.opResult = "failed"],
                              Returned(FALSE, "groups", WrapperError(resp)))
                  ELSE IF resp.data.more /\ resp.data.token # 0
                       THEN [Request(cmd, "groups", "GET chats")
                                EXCEPT !.groups = total, !.page = @ + 1,
                                       !.cursor = resp.data.token]
                       ELSE Finish([cmd EXCEPT !.groups = total, !.opResult = "ok"],
                                   Returned(TRUE, "groups", Undefined))
        /\ UNCHANGED clientCache

CmdInit ==
    /\ clientCache = {}
    /\ cmd = Idle

-----------------------------------------------------------------------------
(* Message ingestion pipeline (handleMessageEvent), one execution at a     *)
(* time, with the deliver callback of its reply dispatcher                 *)

MessageIds == {"m1", Undefined}

\* payload.text of an outbound payload: absent, blank, or a text
PayloadTexts == { Undefined, <<" ">>, <<"r">> }

NoPipe == [pc |-> "idle", account |-> [appId |-> NoApp, secret |-> FALSE],
           kind |-> "", id |-> Undefined, messageId |-> Undefined, duplicate |-> FALSE,
           outcome |-> "none", body |-> << >>, inbound |-> FALSE, context |-> FALSE,
           dispatcher |-> FALSE, dispatched |-> FALSE, idleMarked |-> FALSE,
           out |-> << >>, seen |-> {}]

\* the synchronous part of handleMessageEvent after its last early return:
\* statusSink({lastInboundAt}), finalizeInboundContext({... Body: textContent}),
\* createReplyDispatcherWithTyping, and the call of dispatchReplyFromConfig
EnterDispatch(p, textContent) ==
    [p EXCEPT !.pc = "dispatch", !.inbound = TRUE, !.context = TRUE, !.body = textContent,
              !.dispatcher = TRUE, !.dispatched = TRUE]

\* a try block left without a finally: markDispatchIdle only after success
LeaveDispatchUnmarked(p, outcome) ==
    [p EXCEPT !.pc = "exited", !.outcome = outcome, !.idleMarked = (outcome = "done")]

\* the try block is left, by completion or by an exception: the finally
\* block calls markDispatchIdle()
LeaveDispatch(p, outcome) ==
    [p EXCEPT !.pc = "exited", !.outcome = outcome, !.idleMarked = TRUE]

\* a message event is handed to handleMessageEvent, which runs to its first
\* await or to its end
Receive(account, data, id, messageId) ==
    LET h == handleMessageEvent(data, id, processedEventIds, now, runtimeReady)
        p == [NoPipe EXCEPT !.account = account, !.kind = data.kind, !.id = id,
                            !.messageId = messageId,
                            !.duplicate = (id \in pipe.seen),
                            !.seen = IF data.kind = "null" \/ Falsy(id) THEN pipe.seen
                                     ELSE pipe.seen \cup {id}]
    IN  /\ pipe.pc \in {"idle", "exited"}
        /\ \A i \in DOMAIN pipe.out : pipe.out[i].result # "pending"
        /\ processedEventIds' = h.cache
        /\ pipe' = IF h.outcome = "suspended" THEN EnterDispatch(p, h.text)
                   ELSE [p EXCEPT !.pc = "exited", !.outcome = h.outcome]
        /\ UNCHANGED clientCache

\* a deliver callback that does not skip blank payloads
deliverUnfiltered(p, payloadText, client) ==
    LET text == IF payloadText = Undefined THEN << >> ELSE payloadText
        key  == IF p.messageId = Undefined THEN EmptyId ELSE p.messageId
    IN  IF client.threw
        THEN [text |-> text, attempts |-> 1, key |-> key, result |-> "failed",
              stamped |-> FALSE, logged |-> TRUE]
        ELSE [text |-> text, attempts |-> 1, key |-> key, result |-> "pending",
              stamped |-> FALSE, logged |-> FALSE]

\* deliver(payload) up to its await: a blank text returns at once; otherwise
\* replyFeishuMessage is called with the message id of the event, and fails
\* at once when no client can be had
deliver(p, payloadText, client) ==
    LET text == IF payloadText = Undefined THEN << >> ELSE payloadText
        key  == IF p.messageId = Undefined THEN EmptyId ELSE p.messageId
    IN  IF Trim(text) = << >>
        THEN [text |-> text, attempts |-> 0, key |-> key, result |-> "skipped",
              stamped |-> FALSE, logged |-> FALSE]
        ELSE IF client.threw
        THEN [text |-> text, attempts |-> 1, key |-> key, result |-> "failed",
              stamped |-> FALSE, logged |-> TRUE]
        ELSE [text |-> text, attempts |-> 1, key |-> key, result |-> "pending",
              stamped |-> FALSE, logged |-> FALSE]

\* the message callback registered with the event dispatcher of connection
\* c hands an event to handleMessageEvent with the account of its start
ReceiveOn(c, data, id, messageId) ==
    /\ c \in DOMAIN conns
    /\ conns[c].live
    /\ Receive([appId |-> conns[c].app, secret |-> TRUE], data, id, messageId)

\* a deliver callback that replies only while a connection of its account
\* is started
DeliverPayloadWhileLive(payloadText) ==
    LET text   == IF payloadText = Undefined THEN << >> ELSE payloadText
        client == getFeishuClient(pipe.account, clientCache)
    IN  /\ pipe.pc \in {"dispatch", "waitIdle"}
        /\ \E c \in DOMAIN conns : conns[c].live /\ conns[c].app = pipe.account.appId
        /\ Len(pipe.out) < MaxPayloads
        /\ pipe' = [pipe EXCEPT !.out = Append(@, deliver(pipe, payloadText, client))]
        /\ clientCache' = IF Trim(text) = << >> THEN clientCache ELSE client.cache
        /\ UNCHANGED processedEventIds

\* the dispatch produces an outbound payload and calls deliver
DeliverPayload(payloadText) ==
    LET text   == IF payloadText = Undefined THEN << >> ELSE payloadText
        client == getFeishuClient(pipe.account, clientCache)
    IN  /\ pipe.pc \in {"dispatch", "waitIdle"}
        /\ Len(pipe.out) < MaxPayloads
        /\ pipe' = [pipe EXCEPT !.out = Append(@, deliver(pipe, payloadText, client))]
        /\ clientCache' = IF Trim(text) = << >> THEN clientCache ELSE client.cache
        /\ UNCHANGED processedEventIds

\* the reply request of payload i ends: replyFeishuMessage returns success
\* or an error; deliver records lastOutboundAt or logs the error
ReplySettles(i, resp) ==
    /\ i \in DOMAIN pipe.out
    /\ pipe.out[i].result = "pending"
    /\ pipe' = [pipe EXCEPT !.out[i] =
                   IF resp.kind = "ok"
                   THEN [@ EXCEPT !.result = "ok", !.stamped = TRUE]
                   ELSE [@ EXCEPT !.result = "failed", !.logged = TRUE]]
    /\ UNCHANGED <<processedEventIds, clientCache>>

\* dispatchReplyFromConfig settles
PipeDispatchSettles(ok) ==
    /\ pipe.pc = "dispatch"
    /\ pipe' = IF ok THEN [pipe EXCEPT !.pc = "waitIdle"] ELSE LeaveDispatch(pipe, "failed")
    /\ UNCHANGED <<processedEventIds, clientCache>>

\* dispatcher.waitForIdle() settles: it resolves once no reply is pending
PipeIdleSettles(ok) ==
    /\ pipe.pc = "waitIdle"
    /\ ok => \A i \in DOMAIN pipe.out : pipe.out[i].result # "pending"
    /\ pipe' = LeaveDispatch(pipe, IF ok THEN "done" ELSE "failed")
    /\ UNCHANGED <<processedEventIds, clientCache>>

\* setFeishuRuntime(next), seen from the pipeline
PipeRuntimeSet ==
    /\ setFeishuRuntime
    /\ UNCHANGED <<pipe, clientCache>>

PipeInit == pipe = NoPipe

-----------------------------------------------------------------------------
(* broadcastToGroups and sendFeishuMessage (api.ts) *)

GroupIds == {"A", "B"}

\* destination lists: every list of at most MaxGroups group ids
GroupLists == UNION { [1..n -> GroupIds] : n \in 0..MaxGroups }

NoBroadcast == [pc |-> "idle", account |-> [appId |-> NoApp, secret |-> FALSE],
                groupIds |-> << >>, sends |-> << >>,
                result |-> [successCount |-> 0, failedCount |-> 0, errors |-> << >>]]

\* sendFeishuMessage up to its await: the request is pending, or the call
\* has already returned a failure because no client can be had
sendFeishuMessage(client) ==
    IF client.threw
    THEN [status |-> "fulfilled", success |-> FALSE, error |-> "creds", attempts |-> 1]
    ELSE [status |-> "pending", success |-> FALSE, error |-> Undefined, attempts |-> 1]

\* sendFeishuMessage after its request has ended
SendResult(send, resp) ==
    IF resp.kind = "ok"
    THEN [send EXCEPT !.status = "fulfilled", !.success = TRUE]
    ELSE [send EXCEPT !.status = "fulfilled", !.error = WrapperError(resp)]

\* a loop that sends to one destination after the other: only the first send
\* is started
SendFirstOnly(groupIds, account, cache) ==
    [i \in DOMAIN groupIds |->
        IF i = 1 THEN sendFeishuMessage(getFeishuClient(account, cache))
        ELSE [status |-> "pending", success |-> FALSE, error |-> Undefined, attempts |-> 0]]

\* groupIds.map((chatId) => sendFeishuMessage(...)): every send is started,
\* one after the other, before Promise.allSettled waits for any of them
SendAll(groupIds, account, cache) ==
    [i \in DOMAIN groupIds |-> sendFeishuMessage(getFeishuClient(account, cache))]

\* a tally that counts a destination as failed only when its send raised
RECURSIVE TallyRejected(_, _, _, _)
TallyRejected(groupIds, results, i, acc) ==
    IF i > Len(results) THEN acc
    ELSE TallyRejected(groupIds, results, i + 1,
                       IF results[i].status # "rejected"
                       THEN [acc EXCEPT !.successCount = @ + 1]
                       ELSE [acc EXCEPT !.failedCount = @ + 1])

\* the loop over the settled results: counts, and one error string
\* `${groupIds[i]}: ${errorMsg}` for each result that is not a success
RECURSIVE Tally(_, _, _, _)
Tally(groupIds, results, i, acc) ==
    IF i > Len(results) THEN acc
    ELSE LET result   == results[i]
             errorMsg == IF result.status = "rejected" THEN "reason"
                         ELSE IF result.error = Undefined THEN "Unknown error"
                         ELSE result.error
         IN  Tally(groupIds, results, i + 1,
                   IF result.status = "fulfilled" /\ result.success
                   THEN [acc EXCEPT !.successCount = @ + 1]
                   ELSE [acc EXCEPT !.failedCount = @ + 1,
                                    !.errors = Append(@, <<groupIds[i], ": ", errorMsg>>)])

\* broadcastToGroups is called: all sends are started
BroadcastStart(account, groupIds) ==
    /\ bcast.pc \in {"idle", "returned"}
    /\ bcast' = [NoBroadcast EXCEPT !.pc = "waiting", !.account = account,
                                    !.groupIds = groupIds,
                                    !.sends = SendAll(groupIds, account, clientCache)]
    /\ clientCache' = IF groupIds = << >> THEN clientCache
                      ELSE getFeishuClient(account, clientCache).cache

\* the request of the send to destination i ends
SendResponds(i, resp) ==
    /\ bcast.pc = "waiting"
    /\ i \in DOMAIN bcast.sends
    /\ bcast.sends[i].attempts > 0
    /\ bcast.sends[i].status = "pending"
    /\ bcast' = [bcast EXCEPT !.sends[i] = SendResult(@, resp)]
    /\ UNCHANGED clientCache

\* Promise.allSettled resolves once every send has settled; the results are
\* tallied and broadcastToGroups returns
BroadcastReturns ==
    /\ bcast.pc = "waiting"
    /\ \A i \in DOMAIN bcast.sends : bcast.sends[i].status # "pending"
    /\ bcast' = [bcast EXCEPT !.pc = "returned",
                              !.result = Tally(bcast.groupIds, bcast.sends, 1,
                                               NoBroadcast.result)]
    /\ UNCHANGED clientCache

BcastInit == bcast = NoBroadcast

-----------------------------------------------------------------------------
(* Specifications *)

Init ==
    /\ ConnInit /\ DedupInit /\ EvtInit /\ CmdInit /\ PipeInit /\ BcastInit
    /\ ParseInit /\ AllowInit /\ BotInit

ConnNext ==
    \/ \E acc \in AccountIds, app \in AppIds \cup {NoApp}, secret \in BOOLEAN :
          StartThrows(acc, app, secret) /\ UNCHANGED <<fnVars, dedupVars, evtVars, cmdVars, pipeVars, bcastVars>>
    \/ \E acc \in AccountIds, app \in AppIds, sig \in Signals :
          Start(acc, app, sig) /\ UNCHANGED <<fnVars, dedupVars, evtVars, cmdVars, pipeVars, bcastVars>>
    \/ \E c \in DOMAIN conns : HandleStop(c) /\ UNCHANGED <<fnVars, dedupVars, evtVars, cmdVars, pipeVars, bcastVars>>
    \/ \E s \in Signals : Abort(s) /\ UNCHANGED <<fnVars, dedupVars, evtVars, cmdVars, pipeVars, bcastVars>>
    \/ \E acc \in AccountIds : StopFeishuMonitor(acc) /\ UNCHANGED <<fnVars, dedupVars, evtVars, cmdVars, pipeVars, bcastVars>>
    \/ StopAllFeishuMonitors /\ UNCHANGED <<fnVars, dedupVars, evtVars, cmdVars, pipeVars, bcastVars>>

DedupNext ==
    \/ \E id \in AnyId : CallIsEventProcessed(id) /\ UNCHANGED <<fnVars, connVars, evtVars, cmdVars, pipeVars, bcastVars>>
    \/ clearProcessedEventIds /\ UNCHANGED <<fnVars, connVars, evtVars, cmdVars, pipeVars, bcastVars>>
    \/ Tick /\ UNCHANGED <<fnVars, connVars, evtVars, cmdVars, pipeVars, bcastVars>>

EvtNext ==
    \/ setFeishuRuntime /\ UNCHANGED <<fnVars, connVars, cmdVars, pipeVars, bcastVars>>
    \/ \E acc \in AccountIds, r \in Registered, id \in DeliveryIds :
          \E data \in Payloads(r.handler) : Deliver(acc, r.tag, id, data) /\ UNCHANGED <<fnVars, connVars, cmdVars, pipeVars, bcastVars>>
    \/ \E task \in tasks, ok \in BOOLEAN : DispatchSettles(task, ok) /\ UNCHANGED <<fnVars, connVars, cmdVars, pipeVars, bcastVars>>
    \/ \E task \in tasks, ok \in BOOLEAN : IdleSettles(task, ok) /\ UNCHANGED <<fnVars, connVars, cmdVars, pipeVars, bcastVars>>
    \/ \E task \in tasks, ok \in BOOLEAN : SendSettles(task, ok) /\ UNCHANGED <<fnVars, connVars, cmdVars, pipeVars, bcastVars>>
    \/ \E task \in tasks, res \in {"error", "empty", "groups"} :
          GroupsListed(task, res) /\ UNCHANGED <<fnVars, connVars, cmdVars, pipeVars, bcastVars>>
    \/ \E task \in tasks : BroadcastSettles(task) /\ UNCHANGED <<fnVars, connVars, cmdVars, pipeVars, bcastVars>>
    \/ EvtTick /\ UNCHANGED <<fnVars, connVars, cmdVars, pipeVars, bcastVars>>

CmdNext ==
    \/ \E account \in ApiAccounts, type \in CommandTypes \cup {"bogus"},
          args \in {<< >>, <<" ">>, <<"x">>}, mentioned \in {<< >>, <<"u1">>, <<"u1", "u2">>},
          role \in {"owner", "admin", "member"} :
          ExecuteCommand(account, type, args, mentioned, role)
          /\ UNCHANGED <<fnVars, connVars, dedupVars, evtVars, pipeVars, bcastVars>>
    \/ \E resp \in Failures \cup {Resp("ok", "none", 0)} :
          GroupInfoResponds(resp) /\ UNCHANGED <<fnVars, connVars, dedupVars, evtVars, pipeVars, bcastVars>>
    \/ \E resp \in Failures \cup {Resp("ok", "none", 0)} :
          ManagersResponds(resp) /\ UNCHANGED <<fnVars, connVars, dedupVars, evtVars, pipeVars, bcastVars>>
    \/ \E resp \in AnnouncementReads :
          AnnouncementReadResponds(resp) /\ UNCHANGED <<fnVars, connVars, dedupVars, evtVars, pipeVars, bcastVars>>
    \/ \E resp \in Failures \cup {Resp("ok", "none", 0), Resp("ok", "none", 1)} :
          BlocksResponds(resp) /\ UNCHANGED <<fnVars, connVars, dedupVars, evtVars, pipeVars, bcastVars>>
    \/ \E resp \in Failures \cup {Resp("ok", "none", 0)} :
          AnnouncementWriteResponds(resp) /\ UNCHANGED <<fnVars, connVars, dedupVars, evtVars, pipeVars, bcastVars>>
    \/ \E resp \in Failures \cup { Resp("ok", "none", k) : k \in 0..Len(cmd.mentioned) } :
          MembershipResponds(resp) /\ UNCHANGED <<fnVars, connVars, dedupVars, evtVars, pipeVars, bcastVars>>
    \/ \E resp \in { Resp(f.kind, f.msg, [items |-> << >>, more |-> FALSE, token |-> 0]) :
                        f \in Failures }
                    \cup { Resp("ok", "none", d) :
                             d \in { m \in MemberPages(cmd.page) : m.more => cmd.page + 1 < MaxPages } } :
          MembersResponds(resp) /\ UNCHANGED <<fnVars, connVars, dedupVars, evtVars, pipeVars, bcastVars>>
    \/ clearFeishuClientCache /\ UNCHANGED <<fnVars, connVars, dedupVars, evtVars, pipeVars, bcastVars>>
    \/ \E account \in ApiAccounts :
          WarmClientCache(account) /\ UNCHANGED <<fnVars, connVars, dedupVars, evtVars, pipeVars, bcastVars>>

PipeNext ==
    \/ PipeRuntimeSet /\ UNCHANGED <<fnVars, connVars, cmd, bcast>>
    \/ \E account \in ApiAccounts, id \in DeliveryIds, messageId \in MessageIds :
          \E data \in Payloads("message") :
             /\ Receive(account, data, id, messageId)
             /\ UNCHANGED <<fnVars, connVars, cmd, bcast, now, calls, windowStart, lastCall>>
             /\ UNCHANGED evtVars
    \/ \E payloadText \in PayloadTexts :
          /\ DeliverPayload(payloadText)
          /\ UNCHANGED <<fnVars, connVars, cmd, bcast, now, calls, windowStart, lastCall>>
          /\ UNCHANGED evtVars
    \/ \E i \in 1..MaxPayloads, resp \in Failures \cup {Resp("ok", "none", 0)} :
          /\ ReplySettles(i, resp)
          /\ UNCHANGED <<fnVars, connVars, cmd, bcast, now, calls, windowStart, lastCall>>
          /\ UNCHANGED evtVars
    \/ \E ok \in BOOLEAN :
          /\ PipeDispatchSettles(ok)
          /\ UNCHANGED <<fnVars, connVars, cmd, bcast, now, calls, windowStart, lastCall>>
          /\ UNCHANGED evtVars
    \/ \E ok \in BOOLEAN :
          /\ PipeIdleSettles(ok)
          /\ UNCHANGED <<fnVars, connVars, cmd, bcast, now, calls, windowStart, lastCall>>
          /\ UNCHANGED evtVars

BcastNext ==
    \/ \E account \in ApiAccounts, groupIds \in GroupLists :
          /\ BroadcastStart(account, groupIds)
          /\ UNCHANGED <<fnVars, connVars, dedupVars, evtVars, cmd, pipe>>
    \/ \E i \in 1..MaxGroups, resp \in Failures \cup {Resp("ok", "none", 0)} :
          /\ SendResponds(i, resp)
          /\ UNCHANGED <<fnVars, connVars, dedupVars, evtVars, cmd, pipe>>
    \/ /\ BroadcastReturns
       /\ UNCHANGED <<fnVars, connVars, dedupVars, evtVars, cmd, pipe>>

\* connections started and stopped while a message is processed
StopNext ==
    \/ \E acc \in AccountIds, sig \in Signals :
          /\ Len(conns) < MaxStarts
          /\ Start(acc, <<"x">>, sig)
          /\ UNCHANGED <<fnVars, dedupVars, evtVars, cmdVars, pipeVars, bcastVars>>
    \/ \E c \in DOMAIN conns :
          HandleStop(c) /\ UNCHANGED <<fnVars, dedupVars, evtVars, cmdVars, pipeVars, bcastVars>>
    \/ \E sig \in Signals :
          Abort(sig) /\ UNCHANGED <<fnVars, dedupVars, evtVars, cmdVars, pipeVars, bcastVars>>
    \/ \E acc \in AccountIds :
          StopFeishuMonitor(acc)
          /\ UNCHANGED <<fnVars, dedupVars, evtVars, cmdVars, pipeVars, bcastVars>>
    \/ StopAllFeishuMonitors
          /\ UNCHANGED <<fnVars, dedupVars, evtVars, cmdVars, pipeVars, bcastVars>>
    \/ PipeRuntimeSet /\ UNCHANGED <<fnVars, connVars, cmd, bcast>>
    \/ \E c \in DOMAIN conns, id \in DeliveryIds :
          /\ ReceiveOn(c, Payload("text", <<"h", "i">>, << >>), id, "m1")
          /\ UNCHANGED <<fnVars, connVars, cmd, bcast, now, calls, windowStart, lastCall>>
          /\ UNCHANGED evtVars
    \/ \E payloadText \in PayloadTexts :
          /\ DeliverPayload(payloadText)
          /\ UNCHANGED <<fnVars, connVars, cmd, bcast, now, calls, windowStart, lastCall>>
          /\ UNCHANGED evtVars
    \/ \E i \in 1..MaxPayloads, resp \in {Resp("raise", "text", 0), Resp("ok", "none", 0)} :
          /\ ReplySettles(i, resp)
          /\ UNCHANGED <<fnVars, connVars, cmd, bcast, now, calls, windowStart, lastCall>>
          /\ UNCHANGED evtVars
    \/ \E ok \in BOOLEAN :
          /\ PipeDispatchSettles(ok)
          /\ UNCHANGED <<fnVars, connVars, cmd, bcast, now, calls, windowStart, lastCall>>
          /\ UNCHANGED evtVars
    \/ \E ok \in BOOLEAN :
          /\ PipeIdleSettles(ok)
          /\ UNCHANGED <<fnVars, connVars, cmd, bcast, now, calls, windowStart, lastCall>>
          /\ UNCHANGED evtVars

\* the paginated listings called on their own
PagesNext ==
    \/ \E account \in ApiAccounts :
          ExecuteCommand(account, "list_members", << >>, << >>, "member")
          /\ UNCHANGED <<fnVars, connVars, dedupVars, evtVars, pipeVars, bcastVars>>
    \/ \E resp \in MemberResponses :
          MembersResponds(resp) /\ UNCHANGED <<fnVars, connVars, dedupVars, evtVars, pipeVars, bcastVars>>
    \/ \E account \in ApiAccounts :
          CallListBotGroups(account)
          /\ UNCHANGED <<fnVars, connVars, dedupVars, evtVars, pipeVars, bcastVars>>
    \/ \E resp \in GroupResponses :
          GroupsResponds(resp) /\ UNCHANGED <<fnVars, connVars, dedupVars, evtVars, pipeVars, bcastVars>>

\* the platform answers every request of a listing
PagesFair ==
    /\ WF_vars(\E resp \in MemberResponses :
                  MembersResponds(resp) /\ UNCHANGED <<fnVars, connVars, dedupVars, evtVars, pipeVars, bcastVars>>)
    /\ WF_vars(\E resp \in GroupResponses :
                  GroupsResponds(resp) /\ UNCHANGED <<fnVars, connVars, dedupVars, evtVars, pipeVars, bcastVars>>)

\* updateGroupAnnouncement called on its own
AnnounceNext ==
    \/ \E account \in ApiAccounts, content \in {<< >>, <<" ">>, <<"x">>, <<" ", "x">>} :
          CallUpdateGroupAnnouncement(account, content)
          /\ UNCHANGED <<fnVars, connVars, dedupVars, evtVars, pipeVars, bcastVars>>
    \/ \E resp \in AnnouncementReads :
          AnnouncementReadResponds(resp) /\ UNCHANGED <<fnVars, connVars, dedupVars, evtVars, pipeVars, bcastVars>>
    \/ \E resp \in Failures \cup {Resp("ok", "none", 0), Resp("ok", "none", 1)} :
          BlocksResponds(resp) /\ UNCHANGED <<fnVars, connVars, dedupVars, evtVars, pipeVars, bcastVars>>
    \/ \E resp \in Failures \cup {Resp("ok", "none", 0), Resp("raise", "text", 0)} :
          AnnouncementWriteResponds(resp) /\ UNCHANGED <<fnVars, connVars, dedupVars, evtVars, pipeVars, bcastVars>>
    \/ clearFeishuClientCache /\ UNCHANGED <<fnVars, connVars, dedupVars, evtVars, pipeVars, bcastVars>>
    \/ \E account \in ApiAccounts :
          WarmClientCache(account) /\ UNCHANGED <<fnVars, connVars, dedupVars, evtVars, pipeVars, bcastVars>>

\* getBotInfo calls, their responses, and the cache-clear operation
BotNext ==
    \/ \E account \in BotAccounts :
          /\ GetBotInfo(account)
          /\ UNCHANGED <<parsed, senderCheck, connVars, dedupVars, evtVars, pipeVars, bcastVars>>
    \/ \E resp \in Failures \cup {Resp("raise", "text", 0), Resp("ok", "none", 0),
                                 Resp("ok", "none", BotOpenId(bot.account.appId))} :
          /\ BotInfoResponds(resp)
          /\ UNCHANGED <<parsed, senderCheck, connVars, dedupVars, evtVars, pipeVars, bcastVars>>
    \/ /\ clearFeishuClientCache
       /\ UNCHANGED <<fnVars, connVars, dedupVars, evtVars, pipeVars, bcastVars>>
    \/ \E appId \in AppIds :
          /\ clearFeishuClientCacheOf(appId)
          /\ UNCHANGED <<fnVars, connVars, dedupVars, evtVars, pipeVars, bcastVars>>

ParseNext ==
    \/ \E text \in ParseTexts, mentions \in MentionLists :
          /\ CallParseCommand(text, mentions)
          /\ UNCHANGED <<connVars, dedupVars, evtVars, cmdVars, pipeVars, bcastVars, senderCheck, botVars>>
    \/ /\ CallParseCommandAgain
       /\ UNCHANGED <<connVars, dedupVars, evtVars, cmdVars, pipeVars, bcastVars, senderCheck, botVars>>

AllowNext ==
    \E senderId \in SenderIds, allowFrom \in AllowLists :
       /\ CallIsSenderAllowed(senderId, allowFrom)
       /\ UNCHANGED <<connVars, dedupVars, evtVars, cmdVars, pipeVars, bcastVars, parsed, botVars>>

SpecPages == Init /\ [][PagesNext]_vars /\ PagesFair
SpecAnnounce == Init /\ [][AnnounceNext]_vars
SpecBot   == Init /\ [][BotNext]_vars
SpecStop  == Init /\ [][StopNext]_vars
SpecParse == Init /\ [][ParseNext]_vars
SpecAllow == Init /\ [][AllowNext]_vars
SpecConn  == Init /\ [][ConnNext]_vars
SpecBroadcast == Init /\ [][BcastNext]_vars
SpecPipeline == Init /\ [][PipeNext]_vars
SpecCmd   == Init /\ [][CmdNext]_vars
SpecEvents == Init /\ [][EvtNext]_vars
SpecDedup == Init /\ [][DedupNext]_vars

Next ==
    \/ ConnNext \/ DedupNext \/ EvtNext \/ CmdNext \/ PipeNext \/ BcastNext
    \/ ParseNext \/ AllowNext \/ StopNext \/ BotNext \/ AnnounceNext \/ PagesNext
Spec == Init /\ [][Next]_vars

-----------------------------------------------------------------------------
(* Connection manager: claims *)

Handles == { <<conns[c].acc, conns[c].app>> : c \in DOMAIN conns }
LiveOf(h) == { c \in DOMAIN conns : conns[c].live /\ <<conns[c].acc, conns[c].app>> = h }

\* C1: in every reachable state each account handle (accountId, appId) has
\* at most one live connection (started and not yet stopped).
C1_AtMostOneLivePerHandle == \A h \in Handles : Cardinality(LiveOf(h)) <= 1

\* C2: a start for a handle that already has a live registered connection
\* stops and unregisters that connection, registers the new one, and leaves
\* exactly one live connection for the handle.
C2_RestartLeavesExactlyOneLive ==
    (/\ lastOp.op = "start"
     /\ lastOp.restarted
     /\ conns[lastOp.old].acc = conns[Len(conns)].acc
     /\ conns[lastOp.old].app = conns[Len(conns)].app)
    => LET new == Len(conns)
       IN  /\ ~conns[lastOp.old].live
           /\ conns[new].key \in DOMAIN activeClients
           /\ activeClients[conns[new].key] = new
           /\ LiveOf(<<conns[new].acc, conns[new].app>>) = {new}

\* connection c is the one registered under its key
IsRegistered(reg, cs, c) == cs[c].key \in DOMAIN reg /\ reg[cs[c].key] = c

\* C16: stopFeishuMonitor(accountId) stops and unregisters every live
\* connection of that account id, whatever its application id, and leaves
\* every connection of every other account id live and registered as it was.
C16_StopAccountStopsThatAccountOnly ==
    [][\A acc \in AccountIds :
          StopFeishuMonitor(acc)
          => \A c \in DOMAIN conns :
                IF conns[c].acc = acc
                THEN ~conns'[c].live /\ ~IsRegistered(activeClients', conns', c)
                ELSE /\ conns'[c].live = conns[c].live
                     /\ IsRegistered(activeClients', conns', c)
                          = IsRegistered(activeClients, conns, c)]_vars

\* C17: after stopAllFeishuMonitors returns, from any state reached by
\* starts, restarts, stops and aborts, no connection is live and the
\* registry is empty.
C17_StopAllLeavesNothingLive ==
    lastOp.op = "stopAll"
    => /\ \A c \in DOMAIN conns : ~conns[c].live
       /\ activeClients = EmptyMap

\* C18: stopping an already stopped handle, through the handle's own stop()
\* or its abort signal, whether the handle was stopped explicitly or replaced
\* by a restart, and stopFeishuMonitor or stopAllFeishuMonitors when no
\* connection is live, change neither the registry nor the liveness of any
\* connection.
C18_StopIsIdempotent ==
    [][/\ \A c \in DOMAIN conns :
             (HandleStop(c) /\ ~conns[c].live) => UNCHANGED <<conns, activeClients>>
       /\ \A sig \in Signals :
             (Abort(sig) /\ \A c \in DOMAIN conns : conns[c].sig = sig => ~conns[c].live)
             => UNCHANGED <<conns, activeClients>>
       /\ ((StopAllFeishuMonitors \/ \E acc \in AccountIds : StopFeishuMonitor(acc))
           /\ \A c \in DOMAIN conns : ~conns[c].live)
             => UNCHANGED <<conns, activeClients>>]_vars

\* C19: whenever the abort signal given to a start has been aborted, before
\* the start or at any time after it, the connection that start created is
\* not live and not registered.
C19_AbortedSignalMeansStopped ==
    \A c \in DOMAIN conns :
        conns[c].sig \in aborted => ~conns[c].live /\ ~IsRegistered(activeClients, conns, c)

\* C20: a start with a missing application id or secret raises before any
\* other effect: no connection is created, started or stopped, the registry
\* is unchanged and no abort listener is added.
C20_IncompleteCredentialsFailFast ==
    [][lastOp'.op = "startThrew" => UNCHANGED <<conns, activeClients, aborted>>]_vars

\* a start has just been refused while a connection is live and registered
C20_Witness ==
    /\ lastOp.op = "startThrew"
    /\ \E c \in DOMAIN conns : conns[c].live /\ IsRegistered(activeClients, conns, c)

\* C38: in every reachable state every connection started and not stopped
\* is the one registered under its own key, and in every step a key leaves
\* the registry, or changes the connection it names, only if the connection
\* it named is stopped by that step.
C38_LiveConnectionsAreRegistered ==
    /\ [](\A c \in DOMAIN conns :
            conns[c].live =>
               /\ conns[c].key \in DOMAIN activeClients
               /\ activeClients[conns[c].key] = c)
    /\ [][\A k \in DOMAIN activeClients :
             (k \notin DOMAIN activeClients' \/ activeClients'[k] # activeClients[k])
                => ~conns'[activeClients[k]].live]_vars

-----------------------------------------------------------------------------
(* De-duplication cache: claims *)

\* C3: for calls made within the TTL window that starts at the first call on
\* an empty cache, isEventProcessed(e) returns true exactly when e is
\* non-empty and an earlier call of the sequence had the same identifier.
C3_DuplicateIffSeenBefore ==
    (lastCall.at # -1 /\ now - windowStart <= EVENT_DEDUP_TTL)
    => (lastCall.result <=> (~Falsy(lastCall.id) /\ lastCall.id \in lastCall.earlier))

\* a repeated identifier is recognised at the very end of the window, after
\* calls for the other identifier
C3_Witness ==
    /\ lastCall.result
    /\ lastCall.at = windowStart + EVENT_DEDUP_TTL
    /\ EventIds \subseteq lastCall.earlier

\* C21: a call of isEventProcessed with an absent or an empty identifier
\* returns false, whatever the cache holds and however often it is repeated,
\* and leaves the cache as it was.
C21_NoIdNeverDuplicateNeverRecorded ==
    [][\A id \in {Undefined, EmptyId} :
          CallIsEventProcessed(id)
             => /\ lastCall'.result = FALSE
                /\ processedEventIds' = processedEventIds]_vars

\* the empty identifier passed a second time while the cache holds entries
C21_Witness ==
    /\ lastCall.at # -1
    /\ lastCall.id = EmptyId
    /\ EmptyId \in lastCall.earlier
    /\ processedEventIds # EmptyMap
    /\ ~lastCall.result

\* C31: a call of isEventProcessed for an identifier that was recorded more
\* than EVENT_DEDUP_TTL ago returns false and records the identifier again
\* with the current time, whatever calls were made in between.
C31_ExpiredIdIsProcessedAgain ==
    [][\A id \in EventIds :
          (/\ CallIsEventProcessed(id)
           /\ id \in DOMAIN processedEventIds
           /\ now - processedEventIds[id] > EVENT_DEDUP_TTL)
             => /\ lastCall'.result = FALSE
                /\ id \in DOMAIN processedEventIds'
                /\ processedEventIds'[id] = now]_vars

\* C30: when a call of isEventProcessed with a non-empty identifier returns,
\* true or false, the cache holds no entry older than EVENT_DEDUP_TTL.
C30_EveryCallSweeps ==
    (lastCall.at = now /\ lastCall.id \in EventIds)
       => \A i \in DOMAIN processedEventIds :
             now - processedEventIds[i] <= EVENT_DEDUP_TTL

-----------------------------------------------------------------------------
(* Command parser: claims *)

\* the nine prefixes, in the order of their categories and, within a
\* category, of its aliases
PrefixOrder ==
    << [prefix |-> <<"/", "gong", "gao">>, type |-> "announcement"],
       [prefix |-> <<"/", "a", "n", "n", "o", "u", "n", "c", "e", "m", "e", "n", "t">>, type |-> "announcement"],
       [prefix |-> <<"/", "la", "ren">>, type |-> "add_member"],
       [prefix |-> <<"/", "a", "d", "d">>, type |-> "add_member"],
       [prefix |-> <<"/", "ti", "ren">>, type |-> "remove_member"],
       [prefix |-> <<"/", "k", "i", "c", "k">>, type |-> "remove_member"],
       [prefix |-> <<"/", "r", "e", "m", "o", "v", "e">>, type |-> "remove_member"],
       [prefix |-> <<"/", "cheng", "yuan">>, type |-> "list_members"],
       [prefix |-> <<"/", "m", "e", "m", "b", "e", "r", "s">>, type |-> "list_members"] >>

\* the number of blanks text begins with, and ends with
LeadingBlanks(text) ==
    CHOOSE k \in 0..Len(text) :
       /\ \A i \in 1..k : text[i] = " "
       /\ k = Len(text) \/ text[k + 1] # " "

TrailingBlanks(text) ==
    CHOOSE k \in 0..Len(text) :
       /\ \A i \in (Len(text) - k + 1)..Len(text) : text[i] = " "
       /\ k = Len(text) \/ text[Len(text) - k] # " "

\* prefix stands at position 0 of the text without its leading blanks
StartsAtZero(text, prefix) ==
    LET k == LeadingBlanks(text)
    IN  /\ Len(text) >= k + Len(prefix)
        /\ \A i \in 1..Len(prefix) : text[k + i] = prefix[i]

\* text without the blanks around it
Stripped(text) ==
    IF LeadingBlanks(text) = Len(text) THEN << >>
    ELSE SubSeq(text, LeadingBlanks(text) + 1, Len(text) - TrailingBlanks(text))

\* C22: parseCommand returns a command exactly when the text, trimmed, starts
\* at position 0 with one of the nine prefixes; a prefix further on in the
\* text, or a command word without its slash, gives null; a second call with
\* the same arguments returns the same value.
C22_CommandIffPrefixAtStart ==
    parsed.calls > 0 =>
       /\ parsed.result # Null
             <=> \E i \in DOMAIN PrefixOrder : StartsAtZero(parsed.text, PrefixOrder[i].prefix)
       /\ parsed.calls = 2 => parsed.again = parsed.result

\* a command recognised behind leading blanks, and parsed twice
C22_Witness ==
    /\ parsed.calls = 2
    /\ parsed.result # Null
    /\ parsed.text # << >> /\ Head(parsed.text) = " "

-----------------------------------------------------------------------------
(* Sender allow list: claims *)

\* two texts that differ at most in the case of their letters
CaseEq(a, b) ==
    /\ Len(a) = Len(b)
    /\ \A i \in 1..Len(a) :
          \/ a[i] = b[i]
          \/ \E k \in DOMAIN UpperCase : {a[i], b[i]} = {UpperCase[k], LowerCase[k]}

\* the length of the leading "feishu:", "user:" or "ou_:" of id, in any case
LeadingPrefixLen(id) ==
    LET leading == { q \in { <<"f", "e", "i", "s", "h", "u", ":">>, <<"u", "s", "e", "r", ":">>,
                             <<"o", "u", "_", ":">> } :
                        Len(id) >= Len(q) /\ CaseEq(SubSeq(id, 1, Len(q)), q) }
    IN  IF leading = {} THEN 0 ELSE Len(CHOOSE q \in leading : TRUE)

\* a and b are equal once each is without one leading prefix, case apart
SameId(a, b) ==
    CaseEq(SubSeq(a, LeadingPrefixLen(a) + 1, Len(a)),
           SubSeq(b, LeadingPrefixLen(b) + 1, Len(b)))

\* C29: isSenderAllowed(sender, allowFrom) is true exactly when allowFrom is
\* undefined or empty, or some entry equals the sender after both are
\* lower-cased and stripped of one leading "feishu:", "user:" or "ou_:"; the
\* match is symmetric: an entry matches the sender exactly when the entry, as
\* sender, is allowed by the list holding the sender alone.
C29_AllowedIffListEmptyOrSameId ==
    senderCheck.calls = 1 =>
       LET entries == senderCheck.allowFrom.entries
       IN  /\ senderCheck.result
                <=> \/ ~senderCheck.allowFrom.defined
                    \/ entries = << >>
                    \/ \E i \in DOMAIN entries : SameId(senderCheck.sender, entries[i])
           /\ \A i \in DOMAIN entries :
                 senderCheck.converse[i] <=> SameId(senderCheck.sender, entries[i])

\* a sender behind one prefix allowed by the second entry of the list, which
\* is in upper case behind another prefix
C29_Witness ==
    /\ senderCheck.calls = 1
    /\ senderCheck.sender = <<"f", "e", "i", "s", "h", "u", ":", "a">>
    /\ senderCheck.allowFrom.entries = << <<"b">>, <<"U", "S", "E", "R", ":", "A">> >>
    /\ senderCheck.result
    /\ senderCheck.converse = <<FALSE, TRUE>>

-----------------------------------------------------------------------------
(* Event router: claims *)

\* C4: of the deliveries that carry the same non-empty event identifier
\* within one TTL window, at most one passes de-duplication, whatever the
\* interleaving of the handler tasks and whatever the accounts and event
\* categories of the deliveries: two passes with one identifier are more than
\* EVENT_DEDUP_TTL apart.
C4_AtMostOnePassPerWindow ==
    \A i, j \in DOMAIN passLog :
        (i < j /\ passLog[i].id = passLog[j].id)
        => passLog[j].at - passLog[i].at > EVENT_DEDUP_TTL

\* a delivery is dropped as a duplicate while the task of the delivery that
\* passed, for another account and another event type, is still in flight
C4_Witness ==
    /\ ended.outcome = "duplicate"
    /\ Len(passLog) = 1
    /\ \E t \in tasks : /\ t.id = passLog[1].id
                        /\ t.acc # ended.acc
                        /\ Reg(t.tag).handler # Reg(ended.tag).handler

\* C5: the callback of every event type returns once it has scheduled the
\* handler task; it never waits for the task: every delivery made so far has
\* been answered, the ones whose task is still suspended included.
C5_CallbackReturnsAtOnce == acked = 1..delivered

\* two deliveries have been answered while both their tasks are suspended,
\* one of them in the reply dispatch
C5_Witness ==
    \E t, u \in tasks : /\ t.serial # u.serial
                        /\ {t.serial, u.serial} \subseteq acked
                        /\ t.pc = "dispatch"
                        /\ Reg(u.tag).handler # "message"

\* C6: a failure of a handler task, of any event type and at any step, is
\* caught at the task boundary and logged with the account identifier and
\* the event type; it never leaves the callback, so later events are still
\* routed and processed.
C6_TaskFailureCaughtAndLogged ==
    /\ ~propagated
    /\ ended.outcome = "failed"
         => /\ Len(ended.logged) = 2
            /\ ended.logged[1] = ended.acc
            /\ ended.logged[2] = Reg(ended.tag).logName

\* a delivery made after a task failed has been processed to its end
C6_Witness ==
    /\ lastFailed > 0
    /\ ended.outcome = "done"
    /\ ended.serial > lastFailed

\* C32: in every handler the dedup check comes first and is made once for a
\* delivery.  A delivery whose identifier is in the cache ends at the check
\* as a duplicate, whatever its payload holds and whether or not the runtime
\* is set: no task is left to make a request, and the cache and the record of
\* passes stay as they were.  A delivery with a new identifier records it,
\* once, with the current time; no later step of a task touches the cache.
C32_DedupFirstAndOnce ==
    [][/\ delivered' = delivered + 1 =>
            \A acc \in AccountIds, r \in Registered, id \in DeliveryIds :
               \A data \in Payloads(r.handler) :
                  (data.kind # "null" /\ Deliver(acc, r.tag, id, data)) =>
                     IF id \in DOMAIN processedEventIds
                     THEN /\ ended'.outcome = "duplicate"
                          /\ tasks' = tasks
                          /\ processedEventIds' = processedEventIds
                          /\ passLog' = passLog
                     ELSE /\ ended'.outcome # "duplicate"
                          /\ IF Falsy(id)
                             THEN processedEventIds' = processedEventIds /\ passLog' = passLog
                             ELSE /\ id \in DOMAIN processedEventIds'
                                  /\ processedEventIds'[id] = now
                                  /\ passLog' = Append(passLog, [id |-> id, at |-> now])
       /\ delivered' = delivered => processedEventIds' = processedEventIds]_vars

\* a file event delivered a second time ends as a duplicate
C32_Witness ==
    /\ delivered = 2
    /\ ended.serial = 2
    /\ ended.outcome = "duplicate"
    /\ ended.tag = "drive.file.edit_v1"

\* C33: the router puts no lock or queue between events.  While tasks are in
\* flight a further message of the same account can be delivered and starts
\* its processing at once, and the dispatch of every task in flight, with its
\* replies, can complete whatever the tasks delivered before it are doing.
C33_NoLockBetweenEvents ==
    /\ \A task \in tasks :
          task.pc = "dispatch" =>
             /\ ENABLED DispatchSettles(task, TRUE)
             /\ ENABLED DispatchSettles(task, FALSE)
    /\ \A task \in tasks :
          (/\ delivered < MaxDeliveries
           /\ Cardinality(tasks) < MaxInFlight
           /\ runtimeReady /\ ~propagated)
             => ENABLED (/\ Deliver(task.acc, "im.message.receive_v1", Undefined,
                                    Payload("text", <<"h", "i">>, << >>))
                         /\ \E new \in tasks' \ tasks : new.pc = "dispatch"
                         /\ tasks \subseteq tasks')

\* two messages of one account in flight together, the dispatch of the one
\* delivered later completed while that of the earlier one is still going on
C33_Witness ==
    \E first \in tasks, second \in tasks :
       /\ first.acc = second.acc
       /\ first.tag = "im.message.receive_v1" /\ second.tag = "im.message.receive_v1"
       /\ first.serial < second.serial
       /\ first.pc = "dispatch"
       /\ second.pc = "waitIdle"

\* C10: a message whose text starts with a command prefix is handled by the
\* command parser and executor and is not forwarded to the reply dispatch:
\* every message task in the reply dispatch has a text parseCommand rejects.
C10_CommandsNotDispatched ==
    \A t \in tasks :
        (Reg(t.tag).handler = "message" /\ t.pc \in {"dispatch", "waitIdle"})
        => parseCommand(t.text, << >>) = Null

-----------------------------------------------------------------------------
(* Command executor: claims *)

Called(endpoints) == \E i \in DOMAIN cmd.calls : cmd.calls[i] \in endpoints

\* C7 as stated: for every gated command type and every sender who is neither
\* the owner nor an administrator of the group, executeCommand returns
\* success=false with the fixed permission-denied message and invokes no
\* operation that changes the announcement or the membership.
C7_NonAdminGetsDeniedMessage ==
    (cmd.pc = "done" /\ cmd.type \in ADMIN_REQUIRED_COMMANDS /\ cmd.role = "member")
    => /\ cmd.result.status = "returned"
       /\ ~cmd.result.success
       /\ cmd.result.message = "denied"
       /\ ~Called(Mutations)

\* C7 amended: such a sender always gets success=false and no changing
\* operation is invoked; the message is the fixed permission-denied one,
\* or the check-failure message when a query of the permission check failed.
C7_NonAdminNeverMutates ==
    (cmd.pc = "done" /\ cmd.type \in ADMIN_REQUIRED_COMMANDS /\ cmd.role = "member")
    => /\ cmd.result.status = "returned"
       /\ ~cmd.result.success
       /\ \/ cmd.result.message = "denied"
          \/ cmd.result.message = "checkFailed" /\ cmd.checkFailed
       /\ ~Called(Mutations)

\* a plain member's well-formed member removal is refused after both queries
\* of the permission check succeeded
C7_Witness ==
    /\ cmd.pc = "done"
    /\ cmd.type = "remove_member"
    /\ cmd.role = "member"
    /\ cmd.mentioned # << >>
    /\ cmd.calls = <<"GET chat", "GET managers">>
    /\ ~cmd.checkFailed
    /\ cmd.result.message = "denied"

\* C8: when a query of the permission check of a gated command returns an
\* error or raises, executeCommand returns a failure whose message reports
\* the check failure, and the gated action is never attempted.
C8_CheckFailureReported ==
    (cmd.pc = "done" /\ cmd.type \in ADMIN_REQUIRED_COMMANDS /\ cmd.checkFailed)
    => /\ cmd.result.status = "returned"
       /\ ~cmd.result.success
       /\ cmd.result.message = "checkFailed"
       /\ \A i \in DOMAIN cmd.calls : cmd.calls[i] \in {"GET chat", "GET managers"}

\* C9: executeCommand never throws: whatever the command, the sender and
\* the answers of the platform, the call ends by returning a result.
C9_ExecuteCommandNeverThrows == cmd.result.status # "threw"

\* the requests of the membership operations among the requests made
MembershipRequests == SelectSeq(cmd.calls, LAMBDA e : e \in {"POST members", "DELETE members"})

\* the operation of api.ts a membership command calls
MembershipOp(type) ==
    IF type = "add_member" THEN "addMembersToGroup" ELSE "removeMembersFromGroup"

\* C24: add_member or remove_member, permitted by the permission check and
\* with no mentioned user, returns the usage hint of the command with
\* success=false and calls neither addMembersToGroup nor
\* removeMembersFromGroup, so that no membership request is made.
C24_NoMentionsGivesUsage ==
    (/\ cmd.pc = "done"
     /\ cmd.type \in {"add_member", "remove_member"}
     /\ cmd.perm = "granted"
     /\ cmd.mentioned = << >>)
       => /\ cmd.result.status = "returned"
          /\ ~cmd.result.success
          /\ cmd.result.message = IF cmd.type = "add_member" THEN "usageAdd" ELSE "usageRemove"
          /\ cmd.ops = << >>
          /\ MembershipRequests = << >>

\* an administrator removes members without naming one
C24_Witness ==
    /\ cmd.pc = "done"
    /\ cmd.type = "remove_member"
    /\ cmd.role = "admin"
    /\ cmd.perm = "granted"
    /\ cmd.mentioned = << >>
    /\ cmd.result.message = "usageRemove"

\* C25: add_member or remove_member, permitted by the permission check and
\* with N >= 1 mentioned users, calls the membership operation of its type
\* once, with those N ids, and the operation makes at most one request; when
\* the operation succeeds the result is success=true with a message that names
\* N and, apart from it, the number of ids the platform found invalid; when it
\* fails the result is success=false.
C25_MembershipCalledOnceAndReported ==
    (/\ cmd.type \in {"add_member", "remove_member"}
     /\ cmd.perm = "granted"
     /\ Len(cmd.mentioned) >= 1)
       => /\ cmd.ops = <<[op |-> MembershipOp(cmd.type), memberIds |-> cmd.mentioned]>>
          /\ Len(MembershipRequests) <= 1
          /\ cmd.pc = "done" =>
                /\ cmd.result.status = "returned"
                /\ cmd.opResult \in {"ok", "failed"}
                /\ cmd.opResult = "ok" =>
                      /\ cmd.result.success
                      /\ cmd.result.message = IF cmd.type = "add_member" THEN "added" ELSE "removed"
                      /\ cmd.result.detail.count = Len(cmd.mentioned)
                      /\ cmd.result.detail.invalid = cmd.invalidIds
                /\ cmd.opResult = "failed" =>
                      /\ ~cmd.result.success
                      /\ cmd.result.message = FailedMessage(cmd.type)

\* two users added of whom the platform reports one as invalid
C25_Witness ==
    /\ cmd.pc = "done"
    /\ cmd.type = "add_member"
    /\ cmd.mentioned = <<"u1", "u2">>
    /\ cmd.opResult = "ok"
    /\ cmd.invalidIds = 1
    /\ cmd.result.success
    /\ cmd.result.detail.count = 2

\* C26: list_members goes through no permission check: no group or
\* administrator query is made for it, and a call of executeCommand starts it
\* in the same way whoever the sender is, owner, administrator or neither.
C26_ListMembersNotGated ==
    /\ [](cmd.type = "list_members" =>
            /\ cmd.perm = "none"
            /\ ~cmd.checkFailed
            /\ SelectSeq(cmd.calls, LAMBDA e : e \in {"GET chat", "GET managers"}) = << >>
            /\ cmd.pc = "done" =>
                  cmd.result.message \in {"listFailed", "noMembers", "memberList"})
    /\ [][(cmd.pc \in {"idle", "done"} /\ cmd' # cmd /\ cmd'.type = "list_members")
             => \A other \in {"owner", "admin", "member"} :
                   [cmd' EXCEPT !.role = other]
                      = executeCommand(cmd'.account, "list_members", cmd'.args,
                                       cmd'.mentioned, other, clientCache).cmd]_vars

\* a plain member gets the list
C26_Witness ==
    /\ cmd.pc = "done"
    /\ cmd.type = "list_members"
    /\ cmd.role = "member"
    /\ cmd.result.success
    /\ cmd.result.message = "memberList"

\* C27: list_members returns a failure when getGroupMembers reports an
\* error; else, for no members, success=true with the "no members" message
\* and no lines; else success=true with the first DISPLAY_LIMIT members at
\* most, one line each, numbered from 1 in the order fetched, showing the name
\* or, without one, the id, and with the count of all members.
C27_ListMembersOutcome ==
    (cmd.pc = "done" /\ cmd.type = "list_members") =>
       /\ cmd.opResult = "failed" =>
             ~cmd.result.success /\ cmd.result.message = "listFailed"
       /\ (cmd.opResult = "ok" /\ cmd.members = << >>) =>
             /\ cmd.result.success
             /\ cmd.result.message = "noMembers"
             /\ cmd.result.detail.lines = << >>
       /\ (cmd.opResult = "ok" /\ cmd.members # << >>) =>
             /\ cmd.result.success
             /\ cmd.result.message = "memberList"
             /\ Len(cmd.result.detail.lines) <= DISPLAY_LIMIT
             /\ Len(cmd.result.detail.lines) <= Len(cmd.members)
             /\ Len(cmd.result.detail.lines) = DISPLAY_LIMIT
                   \/ Len(cmd.result.detail.lines) = Len(cmd.members)
             /\ \A i \in DOMAIN cmd.result.detail.lines :
                   /\ cmd.result.detail.lines[i].n = i
                   /\ cmd.result.detail.lines[i].text =
                         IF cmd.members[i].name = NoName THEN cmd.members[i].memberId
                         ELSE cmd.members[i].name
             /\ cmd.result.detail.total = Len(cmd.members)

\* C28: no operation of api.ts lets an exception out, whether the platform
\* answered with a non-zero code, the transport raised or the client could
\* not be created, and none repeats a request: every endpoint is requested
\* once at most, the member listing once per page.
C28_ApiFailuresReturnedNotThrown ==
    /\ cmd.thrownBy = "none"
    /\ \A e \in {"GET chat", "GET managers", "GET announcement", "PATCH announcement",
                  "GET blocks", "POST blocks", "POST members", "DELETE members"} :
          Len(SelectSeq(cmd.calls, LAMBDA x : x = e)) <= 1
    /\ Len(SelectSeq(cmd.calls, LAMBDA x : x = "GET members")) <= cmd.page + 1

-----------------------------------------------------------------------------
(* Message ingestion pipeline: claims *)

Blank(text) == \A i \in DOMAIN text : text[i] \in Whitespace

\* C11: the reply dispatch is invoked for a message event only if the event
\* is not a duplicate, has a sender and a message, is of type text, has
\* parsable content and a text that is not blank; in every other case no
\* inbound timestamp is recorded, no inbound context is built, nothing is
\* dispatched and no reply is sent, so the body of an inbound context is
\* never empty or blank.
C11_DispatchOnlyForText ==
    /\ pipe.dispatched => /\ ~pipe.duplicate
                          /\ pipe.kind = "text"
                          /\ ~Blank(pipe.body)
                          /\ pipe.inbound /\ pipe.context
    /\ ~pipe.dispatched => /\ ~pipe.inbound /\ ~pipe.context /\ ~pipe.dispatcher
                           /\ pipe.out = << >>
    /\ pipe.context => ~Blank(pipe.body)

\* a text message whose text is blank has been dropped
C11_Witness ==
    /\ pipe.pc = "exited"
    /\ pipe.kind = "text"
    /\ ~pipe.duplicate
    /\ pipe.outcome = "dropped"
    /\ ~pipe.inbound

\* C12 as stated: every execution of the message pipeline calls
\* markDispatchIdle on exit, on the success path and on every failure or
\* early-exit path.
C12_EveryExitMarksIdle == pipe.pc = "exited" => pipe.idleMarked

\* C12 amended: an execution calls markDispatchIdle on exit, whether the
\* dispatch succeeded or failed, exactly when it got as far as creating the
\* reply dispatcher; an execution that ends before that (duplicate, dropped
\* event, exception) has no marker to call.
C12_ExitAfterDispatchMarksIdle ==
    /\ pipe.pc = "exited" => (pipe.idleMarked <=> pipe.dispatcher)
    /\ pipe.idleMarked => pipe.pc = "exited"

\* the dispatch failed after a reply had been sent, and the marker was called
C12_Witness ==
    /\ pipe.pc = "exited"
    /\ pipe.outcome = "failed"
    /\ pipe.idleMarked
    /\ \E i \in DOMAIN pipe.out : pipe.out[i].result = "ok"

\* C13: for every outbound payload of one message event: a blank payload
\* causes no send; a payload that is not blank causes exactly one reply-send
\* attempt keyed by the message id of the event; a failed attempt is logged
\* and not retried, and the pipeline and the later payloads go on; the
\* outbound timestamp is recorded only for a successful send.
C13_OneReplyPerPayload ==
    \A i \in DOMAIN pipe.out :
        LET o == pipe.out[i]
        IN  /\ Blank(o.text) => o.attempts = 0 /\ ~o.stamped /\ ~o.logged
            /\ ~Blank(o.text) => /\ o.attempts = 1
                                 /\ pipe.messageId # Undefined => o.key = pipe.messageId
                                 /\ o.stamped <=> o.result = "ok"
                                 /\ o.logged <=> o.result = "failed"

\* the first reply failed, the second payload was sent all the same, and the
\* pipeline ended normally
C13_Witness ==
    /\ pipe.pc = "exited"
    /\ pipe.outcome = "done"
    /\ Len(pipe.out) = 2
    /\ pipe.out[1].result = "failed"
    /\ pipe.out[2].result = "ok"
    /\ pipe.out[2].key = "m1"

-----------------------------------------------------------------------------
(* Broadcast: claims *)

Succeeded(i) == bcast.sends[i].status = "fulfilled" /\ bcast.sends[i].success
Failed(i) == ~Succeeded(i)
SucceededIndices == SelectSeq([i \in DOMAIN bcast.sends |-> i], Succeeded)
FailedIndices == SelectSeq([i \in DOMAIN bcast.sends |-> i], Failed)

\* C14: for every destination list and every combination of outcomes,
\* broadcastToGroups returns successCount = the number of destinations whose
\* send succeeded, failedCount = the number whose send failed, the two adding
\* up to the number of destinations, and errors holding exactly one entry
\* "<destination>: <error>" per failed destination and none for a
\* successful one.
C14_BroadcastCounts ==
    bcast.pc = "returned"
    => LET failed == FailedIndices
           r == bcast.result
       IN  /\ r.successCount = Len(SucceededIndices)
           /\ r.failedCount = Len(failed)
           /\ r.successCount + r.failedCount = Len(bcast.groupIds)
           /\ Len(r.errors) = Len(failed)
           /\ \A k \in DOMAIN failed :
                  r.errors[k] = <<bcast.groupIds[failed[k]], ": ", bcast.sends[failed[k]].error>>

\* of three destinations the second failed: two successes, one failure and
\* one error entry
C14_Witness ==
    /\ bcast.pc = "returned"
    /\ Len(bcast.groupIds) = 3
    /\ Succeeded(1) /\ Failed(2) /\ Succeeded(3)
    /\ bcast.result.successCount = 2
    /\ bcast.result.failedCount = 1
    /\ Len(bcast.result.errors) = 1

\* C15: broadcastToGroups sends to every destination concurrently and
\* independently: every destination gets exactly one send attempt whatever
\* the outcome and the order of completion of the other sends, all sends are
\* started before any result is awaited, and the broadcast returns only once
\* every send has settled.
C15_AllSendsStartedAtOnce ==
    /\ bcast.pc # "idle" => /\ Len(bcast.sends) = Len(bcast.groupIds)
                            /\ \A i \in DOMAIN bcast.sends : bcast.sends[i].attempts = 1
    /\ bcast.pc = "returned" => \A i \in DOMAIN bcast.sends : bcast.sends[i].status = "fulfilled"

\* the last destination's send has failed while the first one's is still
\* pending
C15_Witness ==
    /\ bcast.pc = "waiting"
    /\ Len(bcast.groupIds) = 3
    /\ bcast.sends[1].status = "pending"
    /\ bcast.sends[2].status = "fulfilled" /\ bcast.sends[2].success
    /\ bcast.sends[3].status = "fulfilled" /\ ~bcast.sends[3].success

\* no connection of the application of the message in flight is started
NoLiveConnection ==
    \A c \in DOMAIN conns : conns[c].live => conns[c].app # pipe.account.appId

\* C34: stopping a connection does not cancel a task already dispatched.  A
\* step that stops a connection leaves the message in flight as it is; with
\* no started connection left for its account the task can still issue a
\* reply-send, its dispatch and its wait for idle can still complete or
\* fail, a pending reply can still settle; and a task that left the dispatch
\* has signalled its completion marker.
C34_StopDoesNotCancelTasks ==
    /\ [](/\ (NoLiveConnection /\ pipe.pc \in {"dispatch", "waitIdle"}
                               /\ Len(pipe.out) < MaxPayloads)
               => ENABLED (/\ DeliverPayload(<<"r">>)
                           /\ pipe'.out[Len(pipe.out) + 1].attempts = 1)
          /\ (NoLiveConnection /\ pipe.pc = "dispatch")
               => /\ ENABLED PipeDispatchSettles(TRUE)
                  /\ ENABLED PipeDispatchSettles(FALSE)
          /\ (NoLiveConnection /\ pipe.pc = "waitIdle")
               => /\ ENABLED PipeIdleSettles(FALSE)
                  /\ (\A i \in DOMAIN pipe.out : pipe.out[i].result # "pending")
                        => ENABLED (PipeIdleSettles(TRUE) /\ pipe'.idleMarked)
          /\ \A i \in DOMAIN pipe.out :
                (NoLiveConnection /\ pipe.out[i].result = "pending")
                   => ENABLED ReplySettles(i, Resp("ok", "none", 0))
          /\ (pipe.pc = "exited" /\ pipe.dispatched) => pipe.idleMarked)
    /\ [][(\E c \in DOMAIN conns : conns[c].live /\ ~conns'[c].live)
             => pipe' = pipe]_vars

\* the connection was stopped while the dispatch was going on; the task then
\* sent a reply, which succeeded, completed and marked the dispatch idle
C34_Witness ==
    /\ Len(conns) = 1 /\ ~conns[1].live
    /\ conns[1].app = pipe.account.appId
    /\ pipe.pc = "exited" /\ pipe.outcome = "done" /\ pipe.idleMarked
    /\ Len(pipe.out) = 1
    /\ pipe.out[1].result = "ok" /\ pipe.out[1].stamped

\* a getBotInfo step that starts a call for an application id with an entry
CachedLookup ==
    /\ bot.pc \in {"idle", "done"} /\ bot'.pc # "idle" /\ bot'.calls = bot.calls + 1
    /\ bot'.account.appId \in DOMAIN botInfoCache

\* C35: the client and the bot identity are cached by application id.  A
\* lookup for an id with an entry returns the entry without creating a client
\* or querying the platform; an entry leaves a cache only in a step of the
\* cache-clear operation, and that step removes the cleared ids from both
\* caches; a lookup that fails caches nothing.
C35_CachesClearedTogether ==
    [][/\ CachedLookup
          => /\ bot'.pc = "done" /\ bot'.requests = 0 /\ ~bot'.error
             /\ bot'.openId = botInfoCache[bot'.account.appId]
             /\ clientCache' = clientCache
       /\ \A k \in DOMAIN botInfoCache :
             (k \notin DOMAIN botInfoCache' \/ botInfoCache'[k] # botInfoCache[k])
                => (k \in clientCache /\ k \notin clientCache' /\ bot' = bot)
       /\ \A k \in clientCache :
             k \notin clientCache' => (bot' = bot /\ k \notin DOMAIN botInfoCache')
       /\ (bot.pc = "wait" /\ bot'.pc = "done" /\ bot'.error)
             => botInfoCache' = botInfoCache]_vars

\* the requests of a call that write the announcement
Writes(c) == SelectSeq(c.calls, LAMBDA e : e \in {"POST blocks", "PATCH announcement"})

\* C36: updateGroupAnnouncement writes once at most per call, by the path the
\* read selects.  Blank content makes no platform call; after the "docx
\* type" answer only the block document is written; after a read that failed
\* for another reason nothing is written and the call ends in a failure;
\* otherwise only the PATCH is sent, with the revision just read.
C36_OneWritePathPerCall ==
    /\ Len(Writes(cmd)) <= 1
    /\ Trim(cmd.args) = << >> => cmd.calls = << >>
    /\ cmd.read = "docx" => "PATCH announcement" \notin {cmd.calls[i] : i \in DOMAIN cmd.calls}
    /\ cmd.read = "failed"
          => /\ Writes(cmd) = << >>
             /\ cmd.pc = "done" /\ ~cmd.result.success
    /\ cmd.read = "ok"
          => /\ "POST blocks" \notin {cmd.calls[i] : i \in DOMAIN cmd.calls}
             /\ "GET blocks" \notin {cmd.calls[i] : i \in DOMAIN cmd.calls}
             /\ cmd.pc \in {"annPatch", "done"}
             /\ Writes(cmd) = <<"PATCH announcement">> => cmd.patchRevision = cmd.readRevision

\* the ids of the items of a page that have one, in the order of the page
IdsOf(items, field) ==
    LET withId == SelectSeq(items, LAMBDA item : item[field] # NoId)
    IN  [i \in 1..Len(withId) |-> withId[i][field]]

\* the requests of a listing sent so far
PageRequests == SelectSeq(cmd.calls, LAMBDA e : e \in {"GET members", "GET chats"})

\* what a page does to a listing: a failed page ends it with an error and an
\* empty list; the last page ends it with the entries of all pages; any other
\* page is followed by one request, which carries the token of that page
PageStep(resp, pc, entries2, ids, ids2, field) ==
    /\ resp.kind # "ok"
          => /\ cmd'.pc = "done" /\ cmd'.opResult = "failed"
             /\ entries2 = << >>
             /\ cmd'.calls = cmd.calls
    /\ resp.kind = "ok" => ids2 = ids \o IdsOf(resp.data.items, field)
    /\ (resp.kind = "ok" /\ (~resp.data.more \/ resp.data.token = 0))
          => /\ cmd'.pc = "done" /\ cmd'.opResult = "ok"
             /\ cmd'.calls = cmd.calls
    /\ (resp.kind = "ok" /\ resp.data.more /\ resp.data.token # 0)
          => /\ cmd'.pc = pc
             /\ cmd'.calls = Append(cmd.calls, IF pc = "members" THEN "GET members" ELSE "GET chats")
             /\ cmd'.cursor = resp.data.token
             /\ cmd'.page = cmd.page + 1

\* C37: the listings of group members and of the bot's groups fetch page by
\* page.  One request is outstanding at a time, each after the first with the
\* page token of the page before; the listing ends with the first page whose
\* has_more is false or that has no page token, and returns the entries of
\* all pages in page order; a failed page ends it with an error and an empty
\* list; and a listing whose requests are answered ends.
C37_PagedFetch ==
    /\ [](cmd.pc \in {"members", "groups"} => Len(PageRequests) = cmd.page + 1)
    /\ [][/\ \A resp \in MemberResponses :
                MembersResponds(resp)
                   => PageStep(resp, "members", cmd'.members,
                               [i \in DOMAIN cmd.members |-> cmd.members[i].memberId],
                               [i \in DOMAIN cmd'.members |-> cmd'.members[i].memberId],
                               "member_id")
          /\ \A resp \in GroupResponses :
                GroupsResponds(resp)
                   => PageStep(resp, "groups", cmd'.groups,
                               [i \in DOMAIN cmd.groups |-> cmd.groups[i].chat_id],
                               [i \in DOMAIN cmd'.groups |-> cmd'.groups[i].chat_id],
                               "chat_id")]_vars
    /\ (cmd.pc \in {"members", "groups"}) ~> (cmd.pc = "done")

\* a listing of two pages: the second request carried the token of the first
\* page and the result holds the entries of both pages
C37_Witness ==
    /\ cmd.pc = "done" /\ cmd.type = "listBotGroups" /\ cmd.opResult = "ok"
    /\ cmd.calls = <<"GET chats", "GET chats">>
    /\ cmd.cursor = PageToken(0)
    /\ Len(cmd.groups) = 2
    /\ cmd.groups[1].chat_id = <<"oc", 1>> /\ cmd.groups[2].chat_id = <<"oc", 12>>

\* the command came without what it works on: a blank announcement text, or
\* no mentioned user
NoArguments ==
    IF cmd.type = "announcement" THEN \A i \in DOMAIN cmd.args : cmd.args[i] \in Whitespace
    ELSE cmd.mentioned = << >>

UsageHints == {"usageAnnouncement", "usageAdd", "usageRemove"}

\* the number of requests to endpoint e of the call
Requests(e) == Len(SelectSeq(cmd.calls, LAMBDA x : x = e))

\* C39: for announcement, add_member and remove_member the permission check
\* comes before the validation of the arguments and is made once.  Without
\* arguments, a sender who is neither owner nor administrator never gets the
\* usage hint and gets the denial when the check worked; an owner or an
\* administrator gets the usage hint, after one group query and at most one
\* administrator query, and nothing is read or written for the command.
C39_PermissionBeforeValidation ==
    /\ Requests("GET chat") <= 1 /\ Requests("GET managers") <= 1
    /\ (cmd.pc = "done" /\ cmd.type \in {"announcement", "add_member", "remove_member"}
          /\ NoArguments)
          => /\ cmd.role = "member"
                   => /\ cmd.result.message \notin UsageHints
                      /\ ~cmd.checkFailed => cmd.result.message = "denied"
             /\ cmd.result.message \in UsageHints
                   => /\ cmd.perm = "granted"
                      /\ Requests("GET chat") = 1
             /\ (cmd.role \in {"owner", "admin"} /\ ~cmd.checkFailed)
                   => /\ cmd.result.message \in UsageHints
                      /\ ~cmd.result.success
                      /\ cmd.calls \in {<<"GET chat">>, <<"GET chat", "GET managers">>}
                      /\ cmd.ops = << >>

\* a member who is not an administrator sent the announcement command with a
\* blank text: both permission queries were made and the answer is the denial
C39_Witness ==
    /\ cmd.pc = "done" /\ cmd.type = "announcement" /\ cmd.role = "member"
    /\ cmd.args = <<" ">>
    /\ cmd.calls = <<"GET chat", "GET managers">>
    /\ ~cmd.checkFailed
    /\ cmd.result.message = "denied"

\* C40: the identifier of a message is recorded at the dedup check, before the
\* event is validated or dispatched, and no drop or failure takes it out
\* again.  A delivery with a new identifier leaves it in the cache whether
\* the event is dropped, fails or goes to the dispatch; no step of a task,
\* failing or not, changes the cache; every identifier that passed the check
\* within the TTL is still in the cache; and a delivery of an identifier
\* recorded within the TTL ends as a duplicate and starts no task.
C40_FailedEventsNotRetried ==
    /\ [](\A i \in DOMAIN passLog :
             now - passLog[i].at <= EVENT_DEDUP_TTL
                => passLog[i].id \in DOMAIN processedEventIds)
    /\ [][/\ delivered' = delivered + 1 =>
               \A acc \in AccountIds, id \in DeliveryIds :
                  \A data \in Payloads("message") :
                     (data.kind # "null" /\ Deliver(acc, "im.message.receive_v1", id, data)) =>
                        /\ (~Falsy(id) /\ id \notin DOMAIN processedEventIds)
                              => /\ id \in DOMAIN processedEventIds'
                                 /\ processedEventIds'[id] = now
                        /\ (id \in DOMAIN processedEventIds
                              /\ now - processedEventIds[id] <= EVENT_DEDUP_TTL)
                              => /\ ended'.outcome = "duplicate"
                                 /\ tasks' = tasks
                                 /\ lastFailed' = lastFailed
          /\ (delivered' = delivered /\ now' = now)
                => processedEventIds' = processedEventIds]_vars

\* the processing of a message failed after the dedup check and the message,
\* delivered again within the TTL, ended as a duplicate
C40_Witness ==
    /\ delivered = 2
    /\ lastFailed = 1
    /\ passLog # << >> /\ now - passLog[1].at <= EVENT_DEDUP_TTL
    /\ ended.serial = 2
    /\ ended.tag = "im.message.receive_v1"
    /\ ended.outcome = "duplicate"

====
